---------------------------- MODULE Spec2Model ----------------------------
(***************************************************************************)
(* pre-commit-go: the check scheduler (run), the run-level filter          *)
(* (Config.EnabledChecks) and the coverage check (TestCoverage.run) with   *)
(* its profile merge, as state machines.                                   *)
(*                                                                         *)
(* Text is modelled as a sequence of one-character strings, so that the    *)
(* splitting, parsing and formatting the code performs are computed and    *)
(* not assumed.  Time is counted in whole seconds.                         *)
(***************************************************************************)
EXTENDS Integers, Sequences, FiniteSets, TLC

VARIABLES
    runLevel,       \* the -level flag of this invocation
    config,         \* *Config as returned by getConfig
    queryLevel,     \* argument of the last Config.EnabledChecks call, -1 if none
    queryOut,       \* result of the last Config.EnabledChecks call
    mainPc,         \* position of run(): "start", "wait", "drain", "returned";
                    \* of installPrereq: "pstart", "pwait", "pdrain", "preturned"
    enabledChecks,  \* run(): the checks of this invocation, one task each
    taskPc,         \* per task: "ready", "ran", "timed", "done";
                    \* per probe: "ready", "missing", "sent", "present"
    taskErr,        \* per task: what check.Run() returned; per probe: its prerequisite
    taskDur,        \* per task: the measured duration, in seconds
    errs,           \* run(): the buffered channel errs
    printed,        \* run(): the errors printed while draining, in order
    lastErr,        \* run(): the local variable err of the drain loop
    ret,            \* what run() returned; NotReturned until it does
    covPc,          \* position of TestCoverage.run; "godirs" while goDirs is called
    covCfg,         \* the TestCoverage check and its environment; goDirs: per
                    \* caller, its argument
    covTask,        \* per test directory: "ready" or "done"; goDirs: per caller,
                    \* "ready", "locked", "walking", "returned", "panicked"
    covFiles,       \* per test directory: the profile file in tmpDir, or NoFile;
                    \* goDirs: per caller, what the call returned
    covErrs,        \* TestCoverage.run: its private buffered channel errs
    covOut,         \* what TestCoverage.run computed and returned; goDirs: the
                    \* lock, goDirsCache and the number of walks
    chkPc,          \* position of one check's run(): "start", "returned"
    chkIn,          \* that check with what its external commands do
    chkOut,         \* what that run() returned
    cmdPc,          \* position of mainImpl: "start", "prereq", "hook", "run", "returned"
    cmdIn,          \* the command line and what the steps of the command meet
    cmdLog,         \* what mainImpl has done so far, in order
    cmdRet          \* what mainImpl returned

cfgVars == <<runLevel, config>>
queryVars == <<queryLevel, queryOut>>
runVars == <<mainPc, enabledChecks, taskPc, taskErr, taskDur, errs, printed, lastErr, ret>>
covVars == <<covPc, covCfg, covTask, covFiles, covErrs, covOut>>
chkVars == <<chkPc, chkIn, chkOut>>
cmdVars == <<cmdPc, cmdIn, cmdLog, cmdRet>>
vars == <<cfgVars, queryVars, runVars, covVars, chkVars, cmdVars>>

Nil == [kind |-> "nil"]
NotReturned == [kind |-> "notreturned"]

Range(s) == {s[i] : i \in DOMAIN s}

-----------------------------------------------------------------------------
(* Configuration: the checks, their defaults and the run-level filter.      *)

\* The -level flag is accepted between 0 and MaxRunLevel.
MaxRunLevel == 3
RunLevelFlags == 0..MaxRunLevel

\* A configuration document is not validated: a check's RunLevel may be any
\* integer.  The model takes the documented range and one level above it.
ConfigLevels == 0..(MaxRunLevel + 1)

\* Config.MaxDuration as set by getConfig before the document is loaded.
DefaultMaxDuration == 120

\* The built-in checks, in the order Config.AllChecks lists them.
BuiltinNames ==
    <<"build", "gofmt", "test", "errcheck", "goimports", "golint", "govet", "testcoverage">>

\* RunLevel set by each check's resetDefault.
DefaultRunLevel ==
    [n \in Range(BuiltinNames) |->
        CASE n \in {"build", "gofmt", "test"} -> 1
          [] n \in {"errcheck", "goimports", "testcoverage"} -> 2
          [] OTHER -> 3]

\* A check as the scheduler sees it through the Check interface.
CheckOf(name, level, maxDuration) ==
    [name |-> name, RunLevel |-> level, MaxDuration |-> maxDuration]

\* getConfig's value before a document is loaded: every check reset to its
\* default, no custom check.
DefaultConfig ==
    [MaxDuration |-> DefaultMaxDuration,
     RunLevel |-> DefaultRunLevel,
     CheckMaxDuration |-> [n \in Range(BuiltinNames) |-> 0],
     CustomChecks |-> <<>>]

AllChecks(c) ==
    [i \in 1..Len(BuiltinNames) |->
        CheckOf(BuiltinNames[i], c.RunLevel[BuiltinNames[i]], c.CheckMaxDuration[BuiltinNames[i]])]
    \o c.CustomChecks

\* EnabledLoop with the comparison made strict.
RECURSIVE EnabledLoopStrict(_, _, _, _)
EnabledLoopStrict(all, i, level, out) ==
    IF i > Len(all) THEN out
    ELSE EnabledLoopStrict(all, i + 1, level,
                           IF all[i].RunLevel < level THEN Append(out, all[i]) ELSE out)

\* The loop of EnabledChecks over all[i..], appending to out.
RECURSIVE EnabledLoop(_, _, _, _)
EnabledLoop(all, i, level, out) ==
    IF i > Len(all) THEN out
    ELSE EnabledLoop(all, i + 1, level,
                     IF all[i].RunLevel <= level THEN Append(out, all[i]) ELSE out)

EnabledChecks(c, level) == EnabledLoop(AllChecks(c), 1, level, <<>>)

\* Documents of the filter model: the defaults with the RunLevel of at most
\* MaxOverrides built-in checks overwritten and at most MaxCustom custom checks.
MaxOverrides == 2
MaxCustom == 1

LevelOverrides ==
    {[n \in Range(BuiltinNames) |-> IF n \in S THEN f[n] ELSE DefaultRunLevel[n]] :
        <<S, f>> \in UNION {{<<T, g>> : g \in [T -> ConfigLevels]} :
                            T \in {U \in SUBSET Range(BuiltinNames) : Cardinality(U) <= MaxOverrides}}}

CustomCheckLists ==
    UNION {[1..n -> {CheckOf("custom", lv, 0) : lv \in ConfigLevels}] : n \in 0..MaxCustom}

FilterConfigs ==
    {[DefaultConfig EXCEPT !.RunLevel = lv, !.CustomChecks = cs] :
        lv \in LevelOverrides, cs \in CustomCheckLists}


-----------------------------------------------------------------------------
(* The scheduler: run(name, runLevel).                                      *)

\* Longest per-check MaxDuration a configuration document of the model sets.
MaxBudget == 1

\* What a check's Run may take, in seconds: up to one second over the longest
\* budget of the model.
Durations == 1..(MaxBudget + 2)

\* The checks whose RunLevel and MaxDuration the documents of the scheduler
\* model set; every other check is given a RunLevel no -level flag reaches.
SchedConfigured == {"build", "testcoverage"}
SchedLevels == {0, MaxRunLevel, MaxRunLevel + 1}

SchedConfigs ==
    {[MaxDuration |-> MaxBudget + 1,
      RunLevel |-> [n \in Range(BuiltinNames) |->
                        IF n \in SchedConfigured THEN lv[n] ELSE MaxRunLevel + 1],
      CheckMaxDuration |-> [n \in Range(BuiltinNames) |->
                        IF n \in SchedConfigured THEN md[n] ELSE 0],
      CustomChecks |-> <<>>] :
        lv \in [SchedConfigured -> SchedLevels],
        md \in [SchedConfigured -> 0..MaxBudget]}

CheckError(name) == [kind |-> "check", name |-> name]
BudgetError(name, elapsed) == [kind |-> "budget", name |-> name, elapsed |-> elapsed]
SummaryError(elapsed) == [kind |-> "summary", elapsed |-> elapsed]

\* make(chan error, len(enabledChecks))
ErrsCap(checks) == Len(checks)

\* max := check.GetMaxDuration(); if max == 0 { max = config.MaxDuration }
EffectiveMax(ck, c) == IF ck.MaxDuration = 0 THEN c.MaxDuration ELSE ck.MaxDuration

\* duration > time.Duration(max)*time.Second
TookTooLong(duration, ck, c) == duration > EffectiveMax(ck, c)

Tasks == DOMAIN enabledChecks

\* run() up to wg.Wait(): one goroutine per enabled check.
RunStart ==
    /\ mainPc = "start"
    /\ enabledChecks' = EnabledChecks(config, runLevel)
    /\ taskPc' = [i \in DOMAIN enabledChecks' |-> "ready"]
    /\ taskErr' = [i \in DOMAIN enabledChecks' |-> Nil]
    /\ taskDur' = [i \in DOMAIN enabledChecks' |-> 0]
    /\ errs' = <<>>
    /\ mainPc' = "wait"
    /\ UNCHANGED <<cfgVars, queryVars, covVars, chkVars, cmdVars, printed, lastErr, ret>>

\* A check whose Run stores what it took as its own MaxDuration.
TaskRunStoresDuration(i) ==
    /\ taskPc[i] = "ready"
    /\ \E e \in {Nil, CheckError(enabledChecks[i].name)}, d \in Durations :
          /\ taskErr' = [taskErr EXCEPT ![i] = e]
          /\ taskDur' = [taskDur EXCEPT ![i] = d]
          /\ enabledChecks' = [enabledChecks EXCEPT ![i].MaxDuration = d]
    /\ taskPc' = [taskPc EXCEPT ![i] = "ran"]
    /\ UNCHANGED <<cfgVars, queryVars, covVars, chkVars, cmdVars, mainPc, errs, printed, lastErr, ret>>

\* start := time.Now(); err := check.Run(); duration := time.Now().Sub(start)
TaskRun(i) ==
    /\ taskPc[i] = "ready"
    /\ \E e \in {Nil, CheckError(enabledChecks[i].name)}, d \in Durations :
          /\ taskErr' = [taskErr EXCEPT ![i] = e]
          /\ taskDur' = [taskDur EXCEPT ![i] = d]
    /\ taskPc' = [taskPc EXCEPT ![i] = "ran"]
    /\ UNCHANGED <<cfgVars, queryVars, covVars, chkVars, cmdVars, mainPc, enabledChecks, errs, printed, lastErr, ret>>

\* if err != nil { errs <- err }: the send waits while the channel is full.
TaskSendErr(i) ==
    /\ taskPc[i] = "ran"
    /\ IF taskErr[i] # Nil
         THEN /\ Len(errs) < ErrsCap(enabledChecks)
              /\ errs' = Append(errs, taskErr[i])
         ELSE UNCHANGED errs
    /\ taskPc' = [taskPc EXCEPT ![i] = "timed"]
    /\ UNCHANGED <<cfgVars, queryVars, covVars, chkVars, cmdVars, mainPc, enabledChecks, taskErr, taskDur, printed, lastErr, ret>>

\* if duration > max { errs <- "check <name> took <duration>s" }; wg.Done()
TaskSendBudget(i) ==
    /\ taskPc[i] = "timed"
    /\ IF TookTooLong(taskDur[i], enabledChecks[i], config)
         THEN /\ Len(errs) < ErrsCap(enabledChecks)
              /\ errs' = Append(errs, BudgetError(enabledChecks[i].name, taskDur[i]))
         ELSE UNCHANGED errs
    /\ taskPc' = [taskPc EXCEPT ![i] = "done"]
    /\ UNCHANGED <<cfgVars, queryVars, covVars, chkVars, cmdVars, mainPc, enabledChecks, taskErr, taskDur, printed, lastErr, ret>>

\* wg.Wait() returning as soon as one task has called wg.Done().
RunWaitEarly ==
    /\ mainPc = "wait"
    /\ \E i \in Tasks : taskPc[i] = "done"
    /\ mainPc' = "drain"
    /\ UNCHANGED <<cfgVars, queryVars, covVars, chkVars, cmdVars, enabledChecks, taskPc, taskErr, taskDur, errs, printed, lastErr, ret>>

\* case err = <-errs: with the fmt.Printf left out.
RunDrainSilent ==
    /\ mainPc = "drain"
    /\ errs # <<>>
    /\ lastErr' = Head(errs)
    /\ errs' = Tail(errs)
    /\ UNCHANGED <<cfgVars, queryVars, covVars, chkVars, cmdVars, mainPc, enabledChecks, taskPc, taskErr, taskDur, printed, ret>>

\* wg.Wait() returns once every task has called wg.Done().
RunWait ==
    /\ mainPc = "wait"
    /\ \A i \in Tasks : taskPc[i] = "done"
    /\ mainPc' = "drain"
    /\ UNCHANGED <<cfgVars, queryVars, covVars, chkVars, cmdVars, enabledChecks, taskPc, taskErr, taskDur, errs, printed, lastErr, ret>>

\* case err = <-errs: fmt.Printf("%s\n", err)
RunDrain ==
    /\ mainPc = "drain"
    /\ errs # <<>>
    /\ lastErr' = Head(errs)
    /\ printed' = Append(printed, Head(errs))
    /\ errs' = Tail(errs)
    /\ UNCHANGED <<cfgVars, queryVars, covVars, chkVars, cmdVars, mainPc, enabledChecks, taskPc, taskErr, taskDur, ret>>

\* default: the summary error if an error was drained, else nil.  The whole
\* run lasted at least as long as its longest check.
RunReturn ==
    /\ mainPc = "drain"
    /\ errs = <<>>
    /\ \E total \in Durations \cup {0} :
          /\ \A i \in Tasks : taskDur[i] <= total
          /\ ret' = IF lastErr # Nil THEN SummaryError(total) ELSE lastErr
    /\ mainPc' = "returned"
    /\ UNCHANGED <<cfgVars, queryVars, covVars, chkVars, cmdVars, enabledChecks, taskPc, taskErr, taskDur, errs, printed, lastErr>>

QueryIdle == queryLevel = -1 /\ queryOut = <<>>

RunIdle ==
    /\ mainPc = "start" /\ enabledChecks = <<>> /\ taskPc = <<>> /\ taskErr = <<>>
    /\ taskDur = <<>> /\ errs = <<>> /\ printed = <<>> /\ lastErr = Nil
    /\ ret = NotReturned

CovIdle ==
    /\ covPc = "idle" /\ covCfg = <<>> /\ covTask = <<>> /\ covFiles = <<>>
    /\ covErrs = <<>> /\ covOut = <<>>

ChkIdle == chkPc = "idle" /\ chkIn = <<>> /\ chkOut = <<>>

CmdIdle == cmdPc = "idle" /\ cmdIn = <<>> /\ cmdLog = <<>> /\ cmdRet = <<>>

\* The 'run' command: flags parsed by mainImpl, configuration loaded.
InitRun ==
    /\ runLevel \in RunLevelFlags
    /\ config \in SchedConfigs
    /\ QueryIdle /\ RunIdle /\ CovIdle /\ ChkIdle /\ CmdIdle

NextRun ==
    \/ RunStart
    \/ \E i \in Tasks : TaskRun(i)
    \/ \E i \in Tasks : TaskSendErr(i)
    \/ \E i \in Tasks : TaskSendBudget(i)
    \/ RunWait
    \/ RunDrain
    \/ RunReturn

SpecRun == InitRun /\ [][NextRun]_vars


-----------------------------------------------------------------------------
(* Text: the helpers of the checks package and the library calls they use.  *)

\* The characters of the model's texts, in increasing byte order.
ByteOrder ==
    <<"\t", "\n", " ", "%", "+", ",", "-", ".",
      "0", "1", "2", "3", "4", "5", "6", "7", "8", "9", ":",
      "a", "b", "c", "d", "e", "f", "g", "l", "m", "n", "o", "t", "u", "x">>

CharCode(ch) == CHOOSE i \in DOMAIN ByteOrder : ByteOrder[i] = ch

Digits == <<"0", "1", "2", "3", "4", "5", "6", "7", "8", "9">>
IsDigit(ch) == \E i \in DOMAIN Digits : Digits[i] = ch
DigitVal(ch) == (CHOOSE i \in DOMAIN Digits : Digits[i] = ch) - 1

\* reverse(s): the string with its runes in reverse order.
reverse(s) == [i \in 1..Len(s) |-> s[Len(s) + 1 - i]]

\* Index of the first sep in s at or after position i, 0 if there is none.
RECURSIVE IndexFrom(_, _, _)
IndexFrom(s, sep, i) ==
    IF i > Len(s) THEN 0
    ELSE IF s[i] = sep THEN i
    ELSE IndexFrom(s, sep, i + 1)

\* strings.SplitN(s, sep, n) for a one-character sep: at most n pieces when
\* n > 0, every piece when n < 0.
RECURSIVE SplitN(_, _, _)
SplitN(s, sep, n) ==
    LET k == IndexFrom(s, sep, 1) IN
    IF n = 0 THEN <<>>
    ELSE IF n = 1 \/ k = 0 THEN <<s>>
    ELSE <<SubSeq(s, 1, k - 1)>> \o SplitN(SubSeq(s, k + 1, Len(s)), sep, n - 1)

\* strings.Split(s, sep)
Split(s, sep) == SplitN(s, sep, -1)

\* strings.TrimLeft(s, cutset) for a one-character cutset.
RECURSIVE TrimLeft(_, _)
TrimLeft(s, ch) ==
    IF s # <<>> /\ s[1] = ch THEN TrimLeft(Tail(s), ch) ELSE s

\* The swap loop of rsplitn: items[i], items[j] = reverse(items[j]),
\* reverse(items[i]) for i < l/2, with i counted from 0.
RECURSIVE RsplitnSwap(_, _)
RsplitnSwap(items, i) ==
    LET l == Len(items)
        j == l - i - 1
    IN IF i >= l \div 2 THEN items
       ELSE RsplitnSwap([items EXCEPT ![i + 1] = reverse(items[j + 1]),
                                       ![j + 1] = reverse(items[i + 1])], i + 1)

\* The middle item left as SplitN gave it, reversed.
RsplitnMiddleKept(items) == items

\* The end of rsplitn: if l&1 != 0 the middle item is reversed in place.
RsplitnMiddle(items) ==
    IF Len(items) % 2 # 0
    THEN [items EXCEPT ![(Len(items) \div 2) + 1] = reverse(@)]
    ELSE items

\* rsplitn(s, sep, n): SplitN counted from the right.
rsplitn(s, sep, n) == RsplitnMiddle(RsplitnSwap(SplitN(reverse(s), sep, n), 0))

\* The value of a non-empty string of digits.
RECURSIVE DigitsVal(_)
DigitsVal(s) ==
    IF s = <<>> THEN 0 ELSE 10 * DigitsVal(SubSeq(s, 1, Len(s) - 1)) + DigitVal(s[Len(s)])

AllDigits(s) == s # <<>> /\ \A i \in DOMAIN s : IsDigit(s[i])

\* strconv.Atoi(s): an optional sign and decimal digits, else an error.
Atoi(s) ==
    LET signed == s # <<>> /\ s[1] \in {"+", "-"}
        body == IF signed THEN Tail(s) ELSE s
    IN IF AllDigits(body)
       THEN [ok |-> TRUE, val |-> IF signed /\ s[1] = "-" THEN 0 - DigitsVal(body) ELSE DigitsVal(body)]
       ELSE [ok |-> FALSE, val |-> 0]

\* The decimal digits of n >= 0.
RECURSIVE NatText(_)
NatText(n) ==
    IF n < 10 THEN <<Digits[n + 1]>> ELSE Append(NatText(n \div 10), Digits[(n % 10) + 1])

\* fmt's %d
Itoa(n) == IF n < 0 THEN <<"-">> \o NatText(0 - n) ELSE NatText(n)

\* Percentages are counted in tenths of a percent: 19.9% is 199.
\* fmt's %3.1f and the summarizer's %.1f of such a value.
FormatTenths(t) == NatText(t \div 10) \o <<".">> \o NatText(t % 10)

\* strconv.ParseFloat(s, 64) on the texts of the model: decimal digits with
\* at most one digit after the point; anything else the model holds is no
\* number.
ParseFloat(s) ==
    LET k == IndexFrom(s, ".", 1)
        whole == IF k = 0 THEN s ELSE SubSeq(s, 1, k - 1)
        frac == IF k = 0 THEN <<>> ELSE SubSeq(s, k + 1, Len(s))
    IN IF AllDigits(whole) /\ (frac = <<>> \/ (AllDigits(frac) /\ Len(frac) = 1))
       THEN [ok |-> TRUE, val |-> 10 * DigitsVal(whole) + DigitsVal(frac)]
       ELSE [ok |-> FALSE, val |-> 0]

\* a < b as Go compares strings: byte by byte, a proper prefix first.
RECURSIVE StringLess(_, _)
StringLess(a, b) ==
    IF b = <<>> THEN FALSE
    ELSE IF a = <<>> THEN TRUE
    ELSE IF a[1] # b[1] THEN CharCode(a[1]) < CharCode(b[1])
    ELSE StringLess(Tail(a), Tail(b))

\* sort.Strings of the strings of a set.
RECURSIVE SortStrings(_)
SortStrings(S) ==
    IF S = {} THEN <<>>
    ELSE LET least == CHOOSE a \in S : \A b \in S \ {a} : StringLess(a, b)
         IN <<least>> \o SortStrings(S \ {least})

-----------------------------------------------------------------------------
(* The coverage check: TestCoverage.run, its profile merge and its analysis. *)

\* MinimumCoverage set by TestCoverage.resetDefault: 20.0%, in tenths.
DefaultMinimumCoverage == 200

\* Most test directories goDirs(true) finds in the model.
MaxDirs == 2

ModeCount == <<"m", "o", "d", "e", ":", " ", "c", "o", "u", "n", "t">>
\* Statement keys "<file>:<position> <statements>", a space inside each.
KeyA == <<"a", ":", "1", " ", "2">>
KeyB == <<"b", ":", "2", " ", "1">>

\* What 'go test -coverprofile' writes for a list of <<statement key, count>>
\* entries: the header line, then one line "<key> <count>" per entry.
ProfileText(entries) ==
    <<ModeCount>> \o [i \in 1..Len(entries) |-> entries[i][1] \o <<" ">> \o Itoa(entries[i][2])]

NoFile == [exists |-> FALSE]
ProfileFile(entries) ==
    [exists |-> TRUE, wellFormed |-> TRUE, entries |-> entries, text |-> ProfileText(entries)]
BrokenFile(text) ==
    [exists |-> TRUE, wellFormed |-> FALSE, entries |-> <<>>, text |-> text]

\* The profile files a test run of the model may leave: well-formed ones (a
\* header alone, two profiles that share a statement key, one with
\* unsorted and repeated keys) and two damaged ones (a count that is no
\* integer, a line without a space).
SampleFiles ==
    {ProfileFile(<<>>),
     ProfileFile(<<<<KeyA, 3>>>>),
     ProfileFile(<<<<KeyA, 4>>, <<KeyB, 1>>>>),
     ProfileFile(<<<<KeyB, 1>>, <<KeyA, 3>>, <<KeyB, 1>>>>),
     BrokenFile(<<ModeCount, KeyA \o <<" ", "x">>>>),
     BrokenFile(<<ModeCount, <<"x">>>>)}

\* What 'go tool cover -func' prints for function rows and a total: a first
\* line, one row "<loc>\t<name>\t\t<percent>%" per function and the row
\* "total:\t<name>\t\t<percent>%", each line ended by a newline.
TotalLoc == <<"t", "o", "t", "a", "l", ":">>
SummaryRow(loc, name, percentText) ==
    loc \o <<"\t">> \o name \o <<"\t", "\t">> \o percentText \o <<"%", "\n">>
RECURSIVE SummaryRows(_)
SummaryRows(rows) ==
    IF rows = <<>> THEN <<>>
    ELSE SummaryRow(rows[1].loc, rows[1].name, FormatTenths(rows[1].percent))
         \o SummaryRows(Tail(rows))
SummaryText(rows, total) ==
    <<"f", "n", "\n">> \o SummaryRows(rows) \o SummaryRow(TotalLoc, <<"a", "l", "l">>, FormatTenths(total))

FuncF == [loc |-> <<"a", ":">>, name |-> <<"f">>, percent |-> 1000]
FuncG == [loc |-> <<"b", ":">>, name |-> <<"g">>, percent |-> 500]

Summary(rows, total) ==
    [reported |-> TRUE, rows |-> rows, total |-> total, text |-> SummaryText(rows, total)]
BrokenSummary(text) == [reported |-> FALSE, rows |-> <<>>, total |-> 0, text |-> text]

\* The outputs of the summarizer in the model: well-formed ones around the
\* default minimum, one whose total is no number and one whose function row
\* lacks its third field.
SampleSummaries ==
    {Summary(rows, total) :
        rows \in {<<>>, <<FuncF, FuncG>>},
        total \in {DefaultMinimumCoverage - 1, DefaultMinimumCoverage, DefaultMinimumCoverage + 1}}
    \cup {BrokenSummary(<<"f", "n", "\n">> \o SummaryRow(TotalLoc, <<"a", "l", "l">>, <<"x">>)),
          BrokenSummary(<<"f", "n", "\n", "a", ":", "\t", "f", "\n">>)}

\* An external command as exec.Cmd.CombinedOutput leaves it: it could not be
\* started, or it ran, wrote out and exited with exitCode.
ExitCodes == {0, 1, 2}
Outputs == {<<>>, <<"x">>}
NotStarted == [started |-> FALSE, exitCode |-> 0, out |-> <<>>]
Exited(exitCode, out) == [started |-> TRUE, exitCode |-> exitCode, out |-> out]
Processes == {NotStarted} \cup {Exited(c, o) : c \in ExitCodes, o \in Outputs}

LaunchError == [kind |-> "io", what |-> "launch"]
ExitError(exitCode) == [kind |-> "exit", exitCode |-> exitCode]

\* The error of c.CombinedOutput(): none only for a command that exited with 0.
CombinedOutputErr(p) ==
    IF ~p.started THEN LaunchError
    ELSE IF p.exitCode # 0 THEN ExitError(p.exitCode)
    ELSE Nil

\* captureWd: exitCode is -1 unless the process has a wait status, and the
\* error is dropped when the exit code is not 0.
captureWd(p) ==
    [out |-> p.out,
     exitCode |-> IF p.started THEN p.exitCode ELSE -1,
     err |-> IF p.started /\ p.exitCode # 0 THEN Nil ELSE CombinedOutputErr(p)]

\* Errors of the coverage check.
TestFailure(dir) == [kind |-> "testfailed", dir |-> dir]
NoCoverageFound == [kind |-> "nocoverage"]
AtoiError(field) == [kind |-> "atoi", field |-> field]
MalformedCoverage == [kind |-> "malformed"]
ThresholdError(total, partial) ==
    [kind |-> "threshold", total |-> FormatTenths(total), partial |-> partial]
IOError(what) == [kind |-> "io", what |-> what]
Panic == [kind |-> "panic"]

EmptyCounts == [k \in {} |-> 0]

\* coverage[fn{loc, name}] = percent
SetPercent(coverage, fn, percent) ==
    [k \in DOMAIN coverage \cup {fn} |-> IF k = fn THEN percent ELSE coverage[k]]

\* counts[key] = n, forgetting what the key had.
AddCountOverwrite(counts, key, n) ==
    [k \in DOMAIN counts \cup {key} |-> IF k = key THEN n ELSE counts[k]]

\* counts[key] += n, a key the map lacks counting as 0.
AddCount(counts, key, n) ==
    [k \in DOMAIN counts \cup {key} |->
        (IF k \in DOMAIN counts THEN counts[k] ELSE 0) + (IF k = key THEN n ELSE 0)]

MergeOk(counts) == [status |-> "ok", counts |-> counts, err |-> Nil]
MergeStopped(status, err) == [status |-> status, counts |-> EmptyCounts, err |-> err]

\* count, err2 = strconv.Atoi(items[1]); if err2 != nil { break };
\* counts[items[0]] += count.
MergeCount(counts, key, field, n) ==
    IF ~n.ok THEN MergeStopped("err", AtoiError(field))
    ELSE MergeOk(AddCount(counts, key, n.val))

\* items[1] of a single item is out of range.
MergeItems(counts, items) ==
    IF Len(items) < 2 THEN MergeStopped("panic", Panic)
    ELSE MergeCount(counts, items[1], items[2], Atoi(items[2]))

\* One data line: items := rsplitn(s.Text(), " ", 2) and the two statements
\* after it.
MergeLine(counts, line) == MergeItems(counts, rsplitn(line, " ", 2))

\* for s.Scan() { ... } over the lines text[i..], stopping at the first error.
RECURSIVE MergeLines(_, _, _)
MergeLines(acc, text, i) ==
    IF i > Len(text) \/ acc.status # "ok" THEN acc
    ELSE MergeLines(MergeLine(acc.counts, text[i]), text, i + 1)

\* One profile file: the first s.Scan() strips the header line.
MergeFile(acc, text) == MergeLines(acc, text, 2)

\* The merge with the map made anew for each file.
RECURSIVE MergeFilesFresh(_, _, _)
MergeFilesFresh(acc, texts, i) ==
    IF i > Len(texts) \/ acc.status # "ok" THEN acc
    ELSE MergeFilesFresh(MergeFile(MergeOk(EmptyCounts), texts[i]), texts, i + 1)

\* for _, file := range files { ... }: every file into the same map.
RECURSIVE MergeFiles(_, _, _)
MergeFiles(acc, texts, i) ==
    IF i > Len(texts) \/ acc.status # "ok" THEN acc
    ELSE MergeFiles(MergeFile(acc, texts[i]), texts, i + 1)

\* counts := map[string]int{} and the loop over the files.
Merge(texts) == MergeFiles(MergeOk(EmptyCounts), texts, 1)

\* The merged profile with its lines in the order given.
EmitLines(counts, stms) ==
    <<ModeCount>> \o [i \in 1..Len(stms) |-> stms[i] \o <<" ">> \o Itoa(counts[stms[i]])]

\* profile.cov with the keys from the greatest to the least.
EmitProfileDescending(counts) == EmitLines(counts, reverse(SortStrings(DOMAIN counts)))

\* profile.cov: the header, then "<stm> <count>" for the keys in sort.Strings
\* order.
EmitProfile(counts) == EmitLines(counts, SortStrings(DOMAIN counts))

\* No profile was written.
NoProfile == <<>>

ParseOk(total, coverage) == [status |-> "ok", total |-> total, coverage |-> coverage]
ParseStopped(status) == [status |-> status, total |-> 0, coverage |-> EmptyCounts]

\* The row of the total recorded as a function too.
ParsePercentAll(loc, name, percent, total, coverage) ==
    IF ~percent.ok THEN ParseStopped("err")
    ELSE IF loc = TotalLoc
    THEN ParseOk(percent.val, SetPercent(coverage, <<loc, name>>, percent.val))
    ELSE ParseOk(total, SetPercent(coverage, <<loc, name>>, percent.val))

\* if loc == "total:" { total = percent } else { coverage[fn{loc, name}] =
\* percent }, after the return on a percent that does not parse.
ParsePercent(loc, name, percent, total, coverage) ==
    IF ~percent.ok THEN ParseStopped("err")
    ELSE IF loc = TotalLoc THEN ParseOk(percent.val, coverage)
    ELSE ParseOk(total, SetPercent(coverage, <<loc, name>>, percent.val))

\* percentStr[:len(percentStr)-1], out of range for an empty percentStr.
ParsePercentStr(loc, name, percentStr, total, coverage) ==
    IF percentStr = <<>> THEN ParseStopped("panic")
    ELSE ParsePercent(loc, name, ParseFloat(SubSeq(percentStr, 1, Len(percentStr) - 1)),
                      total, coverage)

\* name := items[0]; percentStr := TrimLeft(items[1], "\t"), out of range
\* for a single item.
ParseName(loc, items, total, coverage) ==
    IF Len(items) < 2 THEN ParseStopped("panic")
    ELSE ParsePercentStr(loc, items[1], TrimLeft(items[2], "\t"), total, coverage)

\* loc := items[0]; the panic on a single item; the second SplitN.
ParseLoc(items, total, coverage) ==
    IF Len(items) = 1 THEN ParseStopped("panic")
    ELSE ParseName(items[1], SplitN(TrimLeft(items[2], "\t"), "\t", 2), total, coverage)

\* The body of the loop over the summarizer's lines for one line that is
\* neither the first nor empty.
ParseRow(line, total, coverage) == ParseLoc(SplitN(line, "\t", 2), total, coverage)

\* for i, line := range strings.Split(out, "\n"), with lines[i] the line of
\* index i - 1.
RECURSIVE ParseLines(_, _, _)
ParseLines(lines, i, acc) ==
    IF i > Len(lines) \/ acc.status # "ok" THEN acc
    ELSE IF i = 1 \/ lines[i] = <<>> THEN ParseLines(lines, i + 1, acc)
    ELSE ParseLines(lines, i + 1, ParseRow(lines[i], acc.total, acc.coverage))

ParseSummary(out) == ParseLines(Split(out, "\n"), 1, ParseOk(0, EmptyCounts))

\* total <= t.MinimumCoverage
AtOrBelowMinimum(total, minimum) == total <= minimum

\* total < t.MinimumCoverage
BelowMinimum(total, minimum) == total < minimum

\* The functions counted as untested: percent < 100.
Partial(coverage) == Cardinality({k \in DOMAIN coverage : coverage[k] < 1000})

\* No profile file and no queued failure: the check passes.
NoCoverageNil(queue) == IF queue # <<>> THEN Head(queue) ELSE Nil

\* if len(files) == 0: the first queued test failure, else "no coverage found".
NoCoverage(queue) == IF queue # <<>> THEN Head(queue) ELSE NoCoverageFound

\* What TestCoverage.run has when it returns.
CovResult(err, stage, queue, counts, emitted, parsed, coverErr) ==
    [ret |-> err, stage |-> stage, queue |-> queue, counts |-> counts, emitted |-> emitted,
     total |-> parsed.total, coverage |-> parsed.coverage, coverErr |-> coverErr]

\* The summarizer as capture runs it: it could not be launched (no output,
\* an error), or it ran and printed a summary.
NoCover == [launched |-> FALSE, summary |-> BrokenSummary(<<>>)]

\* goveralls was not run.
NoUpload == [started |-> FALSE, exitCode |-> -1, out |-> <<>>]
CoverOutcomes ==
    {NoCover}
    \cup {[launched |-> TRUE, summary |-> sm] : sm \in SampleSummaries}

\* The threshold failing on an untested function as well.
AfterThresholdUntested(parsed, coverErr, minimum) ==
    IF BelowMinimum(parsed.total, minimum) \/ Partial(parsed.coverage) > 0
    THEN ThresholdError(parsed.total, Partial(parsed.coverage))
    ELSE coverErr

\* if total < t.MinimumCoverage { err2 = the threshold error }, err2 being
\* the error of the summarizer's capture until then.
AfterThreshold(parsed, coverErr, minimum) ==
    IF BelowMinimum(parsed.total, minimum)
    THEN ThresholdError(parsed.total, Partial(parsed.coverage))
    ELSE coverErr

\* if err2 == nil { select { case err2 = <-errs: default: } }
Receives(err2, queue) == err2 = Nil /\ queue # <<>>
AfterQueue(err2, queue) == IF Receives(err2, queue) THEN Head(queue) ELSE err2
QueueLeft(err2, queue) == IF Receives(err2, queue) THEN Tail(queue) ELSE queue

\* With TRAVIS_JOB_ID set: out, _, err3 := capture("goveralls", ...);
\* if err2 == nil { err2 = err3 }.
AfterUpload(err2, travis, upload) ==
    IF travis /\ err2 = Nil THEN captureWd(upload).err ELSE err2

\* From the threshold to 'return err2'.
Decide(err2, parsed, coverErr, counts, emitted, queue, cfg, env) ==
    CovResult(AfterUpload(AfterQueue(err2, queue), cfg.travis, env.upload), "decided",
              QueueLeft(err2, queue), counts, emitted, parsed, coverErr)

\* The loop over the summarizer's lines ended: by a panic, by the return of
\* "malformed coverage file", or at the last line.
AnalyzeParsed(parsed, coverErr, counts, emitted, queue, cfg, env) ==
    IF parsed.status = "panic"
    THEN CovResult(Panic, "panic", queue, counts, emitted, parsed, coverErr)
    ELSE IF parsed.status = "err"
    THEN CovResult(MalformedCoverage, "parse", queue, counts, emitted, parsed, coverErr)
    ELSE Decide(AfterThreshold(parsed, coverErr, cfg.MinimumCoverage),
                parsed, coverErr, counts, emitted, queue, cfg, env)

\* out, _, err2 := capture("go", "tool", "cover", "-func", profilePath)
CoverOut(cover) == IF cover.launched THEN cover.summary.text ELSE <<>>
CoverErr(cover) == IF cover.launched THEN Nil ELSE IOError("cover")

\* "Analyze the results" to the return: the summarizer run, its output
\* parsed, the threshold, the queued test failure, the upload.
Analyze(counts, emitted, queue, cfg, env) ==
    AnalyzeParsed(ParseSummary(CoverOut(env.cover)), CoverErr(env.cover),
                  counts, emitted, queue, cfg, env)

\* The profile files of tmpDir in the order filepath.Glob lists them.
RECURSIVE GlobTexts(_, _)
GlobTexts(files, i) ==
    IF i > Len(files) THEN <<>>
    ELSE (IF files[i].exists THEN <<files[i].text>> ELSE <<>>) \o GlobTexts(files, i + 1)

\* The merge loop ended: by a panic, by the return of Atoi's error, or at
\* the last file; then os.Create of profile.cov and the emission.
AfterMerge(merged, queue, cfg, env) ==
    IF merged.status = "panic"
    THEN CovResult(Panic, "panic", queue, EmptyCounts, NoProfile, ParseStopped("ok"), Nil)
    ELSE IF merged.status = "err"
    THEN CovResult(merged.err, "merge", queue, EmptyCounts, NoProfile, ParseStopped("ok"), Nil)
    ELSE IF env.io = "create"
    THEN CovResult(IOError("create"), "create", queue, merged.counts, NoProfile,
                   ParseStopped("ok"), Nil)
    ELSE Analyze(merged.counts, EmitProfile(merged.counts), queue, cfg, env)

\* if len(files) == 0 { ... }, then the merge unless os.Open fails.
AfterGlob(texts, queue, cfg, env) ==
    IF texts = <<>>
    THEN CovResult(NoCoverage(queue), "nocoverage", IF queue # <<>> THEN Tail(queue) ELSE queue,
                   EmptyCounts, NoProfile, ParseStopped("ok"), Nil)
    ELSE IF env.io = "open"
    THEN CovResult(IOError("open"), "open", queue, EmptyCounts, NoProfile, ParseStopped("ok"), Nil)
    ELSE AfterMerge(Merge(texts), queue, cfg, env)

\* TestCoverage.run from the Glob after wg.Wait() to its return statement.
AfterTests(files, queue, cfg, env) == AfterGlob(GlobTexts(files, 1), queue, cfg, env)

\* The deferred function: os.RemoveAll(tmpDir); if err == nil { err = err2 }.
Deferred(res, env) ==
    IF res.ret = Nil THEN [res EXCEPT !.ret = env.remove] ELSE res

CovEnvs ==
    [io : {"none", "open", "create"},
     cover : CoverOutcomes,
     upload : {NotStarted, Exited(0, <<>>), Exited(1, <<"x">>)},
     remove : {Nil, IOError("remove")}]

\* The environments a call with configuration cfg can tell apart: the
\* summarizer is launched only once the merged profile is written, goveralls
\* only with TRAVIS_JOB_ID set.
CovEnvsOf(cfg) ==
    {env \in CovEnvs :
        /\ env.io # "none" => env.cover = NoCover /\ env.upload = NotStarted
        /\ ~cfg.travis => env.upload = NotStarted}

Dirs == DOMAIN covTask

\* The check going on to TempDir and the merge whatever goDirs found.
NoTestDirsIgnored(dirs) == FALSE

\* if len(testDirs) == 0 { return nil }
NoTestDirs(dirs) == dirs = 0

\* TestCoverage.run up to wg.Wait(): relToGOPATH, goDirs(true), TempDir, then
\* one goroutine per test directory.
CovStart ==
    /\ covPc = "start"
    /\ \/ /\ \E early \in {IOError("gopath")} \cup
                          (IF NoTestDirs(covCfg.dirs) THEN {} ELSE {IOError("tempdir")}) :
                covOut' = [res |-> CovResult(early, "early", <<>>, EmptyCounts, NoProfile,
                                             ParseStopped("ok"), Nil),
                           tmpDir |-> "none", queued |-> <<>>, cover |-> NoCover,
                           upload |-> NoUpload]
          /\ covPc' = "returned"
          /\ UNCHANGED <<covTask, covFiles, covErrs>>
       \/ /\ NoTestDirs(covCfg.dirs)
          /\ covOut' = [res |-> CovResult(Nil, "nodirs", <<>>, EmptyCounts, NoProfile,
                                          ParseStopped("ok"), Nil),
                        tmpDir |-> "none", queued |-> <<>>, cover |-> NoCover,
                           upload |-> NoUpload]
          /\ covPc' = "returned"
          /\ UNCHANGED <<covTask, covFiles, covErrs>>
       \/ /\ ~NoTestDirs(covCfg.dirs)
          /\ covTask' = [i \in 1..covCfg.dirs |-> "ready"]
          /\ covFiles' = [i \in 1..covCfg.dirs |-> NoFile]
          /\ covErrs' = <<>>
          /\ covPc' = "testing"
          /\ UNCHANGED covOut
    /\ UNCHANGED <<cfgVars, queryVars, runVars, chkVars, cmdVars, covCfg>>

\* One goroutine: 'go test -coverprofile test<i>.cov' in its directory, which
\* may or may not leave a profile file, and a failure queued if it did not
\* exit with 0.
CovTest(i) ==
    /\ covPc = "testing"
    /\ covTask[i] = "ready"
    /\ \E file \in SampleFiles \cup {NoFile}, exitCode \in {0, 1} :
          /\ covFiles' = [covFiles EXCEPT ![i] = file]
          /\ IF exitCode # 0
               THEN /\ Len(covErrs) < covCfg.dirs
                    /\ covErrs' = Append(covErrs, TestFailure(i))
               ELSE UNCHANGED covErrs
    /\ covTask' = [covTask EXCEPT ![i] = "done"]
    /\ UNCHANGED <<cfgVars, queryVars, runVars, chkVars, cmdVars, covPc, covCfg, covOut>>

\* tmpDir with the deferred function skipped when the check panics.
TmpDirUnlessPanic(res, env) ==
    IF res.ret = Panic THEN "exists" ELSE IF env.remove = Nil THEN "removed" ELSE "left"

\* tmpDir once the deferred os.RemoveAll(tmpDir) has run, which it does on a
\* return and on a panic alike: gone, or left behind if RemoveAll failed.
TmpDirAfter(res, env) == IF env.remove = Nil THEN "removed" ELSE "left"

\* TestCoverage.run returns res, or panics; covOut keeps with it what the
\* summarizer did, if the check came to run it, and the failures queued when
\* the tests had ended.
CovReturn(res, env) ==
    /\ covOut' = [res |-> res, tmpDir |-> TmpDirAfter(res, env), queued |-> covErrs,
                  cover |-> IF res.emitted # NoProfile THEN env.cover ELSE NoCover,
                  upload |-> IF res.stage = "decided" /\ covCfg.travis
                             THEN env.upload ELSE NoUpload]
    /\ covErrs' = res.queue
    /\ covPc' = IF res.ret = Panic THEN "panicked" ELSE "returned"

\* The merge begun as soon as one test run is over.
CovFinishEarly ==
    /\ covPc = "testing"
    /\ \E i \in Dirs : covTask[i] = "done"
    /\ \E env \in CovEnvsOf(covCfg) : CovReturn(Deferred(AfterTests(covFiles, covErrs, covCfg, env), env), env)
    /\ UNCHANGED <<cfgVars, queryVars, runVars, chkVars, cmdVars, covCfg, covTask, covFiles>>

\* After wg.Wait(): the merge, the analysis and the return, then the deferred
\* removal of tmpDir.  A panic unwinds through the deferred function too.
CovFinish ==
    /\ covPc = "testing"
    /\ \A i \in Dirs : covTask[i] = "done"
    /\ \E env \in CovEnvsOf(covCfg) : CovReturn(Deferred(AfterTests(covFiles, covErrs, covCfg, env), env), env)
    /\ UNCHANGED <<cfgVars, queryVars, runVars, chkVars, cmdVars, covCfg, covTask, covFiles>>

\* The coverage check called with its configuration and environment: the
\* minimum, whether TRAVIS_JOB_ID is set, and the test directories found.
InitCov ==
    /\ runLevel = 0
    /\ config = DefaultConfig
    /\ QueryIdle /\ RunIdle /\ ChkIdle /\ CmdIdle
    /\ covPc = "start"
    /\ covCfg \in [MinimumCoverage : {0, DefaultMinimumCoverage},
                    travis : BOOLEAN,
                    dirs : 0..MaxDirs]
    /\ covTask = <<>> /\ covFiles = <<>> /\ covErrs = <<>> /\ covOut = <<>>

NextCov ==
    \/ CovStart
    \/ \E i \in Dirs : CovTest(i)
    \/ CovFinish

SpecCov == InitCov /\ [][NextCov]_vars

-----------------------------------------------------------------------------
(* The run-level filter on its own: EnabledChecks called with a valid level. *)

CallEnabledChecks ==
    /\ \E level \in RunLevelFlags :
          /\ queryLevel' = level
          /\ queryOut' = EnabledChecks(config, level)
    /\ UNCHANGED <<cfgVars, runVars, covVars, chkVars, cmdVars>>

InitFilter ==
    /\ runLevel = 0
    /\ config \in FilterConfigs
    /\ QueryIdle /\ RunIdle /\ CovIdle /\ ChkIdle /\ CmdIdle

NextFilter == CallEnabledChecks

SpecFilter == InitFilter /\ [][NextFilter]_vars

\* The goroutines of run() under the Go scheduler: a goroutine that can take
\* its next step takes it in the end.
TaskSlots == 1..Len(BuiltinNames)

FairRun ==
    /\ WF_vars(RunStart)
    /\ WF_vars(RunWait)
    /\ WF_vars(RunDrain)
    /\ WF_vars(RunReturn)
    /\ \A i \in TaskSlots :
          /\ WF_vars(i \in Tasks /\ TaskRun(i))
          /\ WF_vars(i \in Tasks /\ TaskSendErr(i))
          /\ WF_vars(i \in Tasks /\ TaskSendBudget(i))

SpecRunFair == InitRun /\ [][NextRun]_vars /\ FairRun

-----------------------------------------------------------------------------
(* Claims about the scheduler and the run-level filter.                     *)

\* A run has come to rest: run() has returned or no goroutine can move.
RunAtRest == ~ENABLED NextRun

\* The budget the claims give check i: its own maxDuration if non-zero,
\* otherwise the global MaxDuration.
BudgetOf(i) ==
    IF enabledChecks[i].MaxDuration # 0 THEN enabledChecks[i].MaxDuration
    ELSE config.MaxDuration

RunFailed(i) == taskErr[i] # Nil
OverBudget(i) == taskDur[i] > BudgetOf(i)

\* Every error that reached the channel: still queued, or drained and printed.
Posted == Range(errs) \cup Range(printed)

\* C1: when the run comes to rest run() has returned, with no error if every
\* check's run returned no error within its budget, and with the summary error
\* carrying the duration of the whole run if any check failed or overran.
C1_RunReturnsSummary ==
    RunAtRest =>
        /\ mainPc = "returned"
        /\ (\A i \in Tasks : ~RunFailed(i) /\ ~OverBudget(i)) => ret = Nil
        /\ (\E i \in Tasks : RunFailed(i) \/ OverBudget(i)) =>
              /\ ret.kind = "summary"
              /\ \A i \in Tasks : ret.elapsed >= taskDur[i]

\* C2: when the run comes to rest, a budget error "check <name> took
\* <elapsed>s" has been posted for exactly the checks that took strictly longer
\* than their effective budget.
C2_BudgetErrorsExact ==
    RunAtRest =>
        \A i \in Tasks :
            BudgetError(enabledChecks[i].name, taskDur[i]) \in Posted <=> OverBudget(i)

\* The number of errors of check i on the channel or printed.
Contributed(i) ==
    Cardinality({k \in DOMAIN errs : errs[k].name = enabledChecks[i].name})
    + Cardinality({k \in DOMAIN printed : printed[k].name = enabledChecks[i].name})

\* C3: when the run comes to rest each check has contributed one error if its
\* run failed plus one if it overran its budget, and a check that overran
\* after a successful run has its budget error posted and run() has failed.
C3_ErrorsPerCheck ==
    RunAtRest =>
        \A i \in Tasks :
            /\ Contributed(i) = (IF RunFailed(i) THEN 1 ELSE 0) + (IF OverBudget(i) THEN 1 ELSE 0)
            /\ (~RunFailed(i) /\ OverBudget(i)) =>
                  /\ BudgetError(enabledChecks[i].name, taskDur[i]) \in Posted
                  /\ ret.kind = "summary"

C5_LevelZeroNeverRuns ==
    \A i \in Tasks : enabledChecks[i].RunLevel # 0

-----------------------------------------------------------------------------
(* The coverage check's claims.                                             *)

CovEnded == covPc \in {"returned", "panicked"}

\* The merge loop ran over every profile file to its end.
MergeDone ==
    /\ CovEnded
    /\ \/ covOut.res.stage \in {"create", "parse", "decided"}
       \/ covOut.res.emitted # NoProfile

Existing == {i \in DOMAIN covFiles : covFiles[i].exists}

\* The places <<file, entry>> where the test runs wrote a count for key.
Occurrences(key) ==
    {<<i, j>> \in Existing \X (1..3) :
        j \in DOMAIN covFiles[i].entries /\ covFiles[i].entries[j][1] = key}

ProfileKeys ==
    UNION {{covFiles[i].entries[j][1] : j \in DOMAIN covFiles[i].entries} : i \in Existing}

RECURSIVE SumOver(_)
SumOver(places) ==
    IF places = {} THEN 0
    ELSE LET pl == CHOOSE q \in places : TRUE
         IN covFiles[pl[1]].entries[pl[2]][2] + SumOver(places \ {pl})

\* C6: once the merge has run over the profile files, the merged count of
\* every statement key is the sum of the counts the profiles hold for it, a
\* key one profile holds once keeps that count, and the merged keys are
\* exactly the keys of the profiles.
C6_MergedCountIsSum ==
    MergeDone =>
        /\ DOMAIN covOut.res.counts = ProfileKeys
        /\ \A key \in ProfileKeys :
              /\ covOut.res.counts[key] = SumOver(Occurrences(key))
              /\ \A pl \in Occurrences(key) :
                    Occurrences(key) = {pl}
                        => covOut.res.counts[key] = covFiles[pl[1]].entries[pl[2]][2]

C6_Witness ==
    /\ MergeDone
    /\ \E i, k \in Existing :
          /\ covFiles[i].entries = <<<<KeyA, 3>>>>
          /\ covFiles[k].entries = <<<<KeyA, 4>>, <<KeyB, 1>>>>
    /\ covOut.res.counts[KeyA] = 7
    /\ covOut.res.counts[KeyB] = 1

Texts == GlobTexts(covFiles, 1)

Perms(n) == {p \in [1..n -> 1..n] : \A a, b \in 1..n : a # b => p[a] # p[b]}

Permuted(texts, p) == [i \in 1..Len(texts) |-> texts[p[i]]]

\* The merge of texts gives what the check had.
SameMerge(merged) ==
    /\ merged.status = "ok"
    /\ merged.counts = covOut.res.counts
    /\ covOut.res.emitted # NoProfile => EmitProfile(merged.counts) = covOut.res.emitted

\* The first k profiles merged and emitted as one profile.
MergedPrefix(texts, k) == EmitProfile(Merge(SubSeq(texts, 1, k)).counts)

\* C7: once the merge has run, the profile files taken in any other order
\* give the same merged counts and the same emitted profile, and so does
\* merging a part of them first and its emitted profile with the rest.
C7_MergeOrderIndependent ==
    MergeDone =>
        /\ \A p \in Perms(Len(Texts)) : SameMerge(Merge(Permuted(Texts, p)))
        /\ \A k \in 1..Len(Texts) :
              SameMerge(Merge(<<MergedPrefix(Texts, k)>> \o SubSeq(Texts, k + 1, Len(Texts))))

C7_Witness ==
    /\ MergeDone
    /\ covOut.res.emitted # NoProfile
    /\ Len(Texts) = 2
    /\ Texts[1] # Texts[2]
    /\ Len(Texts[1]) > 1 /\ Len(Texts[2]) > 1
    /\ Len(covOut.res.emitted) > 2

\* The check came to its threshold.
Decided == covPc = "returned" /\ covOut.res.stage = "decided"

Reported == covOut.cover.launched /\ covOut.cover.summary.reported

Untested(rows) == Cardinality({j \in DOMAIN rows : rows[j].percent < 1000})

NoProfiles == CovEnded /\ covOut.tmpDir # "none" /\ Existing = {}

\* C9 as stated: with no profile found the merged profile is the header
\* alone and the check returns "no coverage found", without a panic.
C9_NoCoverageFound ==
    NoProfiles =>
        /\ covPc = "returned"
        /\ covOut.res.emitted = <<ModeCount>>
        /\ covOut.res.ret = NoCoverageFound

\* C9: with no profile found the check writes no merged profile and returns
\* an error without a panic: the first queued test failure if there is one,
\* "no coverage found" otherwise; and a merge of profiles that hold no
\* statement is emitted as the header alone.
C9_NoProfilesIsAnError ==
    /\ NoProfiles =>
          /\ covPc = "returned"
          /\ covOut.res.emitted = NoProfile
          /\ covOut.res.ret # Nil
          /\ covOut.res.ret =
                IF covOut.queued # <<>> THEN Head(covOut.queued) ELSE NoCoverageFound
    /\ (MergeDone /\ covOut.res.emitted # NoProfile /\ ProfileKeys = {})
          => covOut.res.emitted = <<ModeCount>>

C9_Witness ==
    /\ NoProfiles
    /\ covCfg.dirs = MaxDirs
    /\ covOut.queued = <<>>
    /\ covOut.res.ret = NoCoverageFound

InfraKinds == {"io", "atoi", "malformed"}

\* C10: the check returns an error of the test, merge, emit or summarize
\* steps if there is one, else the threshold failure if the total is below
\* the minimum, else a queued test failure if there is one.
C10_ErrorPrecedence ==
    (covPc = "returned" /\ covOut.tmpDir # "none" /\ Existing # {}) =>
        IF covOut.res.stage # "decided" THEN covOut.res.ret.kind \in InfraKinds
        ELSE IF covOut.res.coverErr # Nil THEN covOut.res.ret = covOut.res.coverErr
        ELSE IF covOut.res.total < covCfg.MinimumCoverage
             THEN covOut.res.ret.kind = "threshold"
        ELSE IF covOut.queued # <<>> THEN covOut.res.ret = Head(covOut.queued)
        ELSE covOut.res.ret.kind \in {"nil", "io"}

-----------------------------------------------------------------------------
(* The checks that wrap one external command: their run() as a function of *)
(* what the command does.                                                   *)

\* Most entries of BuildOnly.ExtraArgs in the model, one build each.
MaxExtraArgs == 2

ExtraArgsError == [kind |-> "config", what |-> "ExtraArgs"]
OutputError(name, out) == [kind |-> "output", name |-> name, out |-> out]
CommandError(name, err) == [kind |-> "command", name |-> name, err |-> err]

\* out, _, err := capture(...); if len(out) != 0 { return the output as an
\* error }; if err != nil { return it as an error }.
OutThenErr(name, r) ==
    IF r.out # <<>> THEN OutputError(name, r.out)
    ELSE IF r.err # Nil THEN CommandError(name, r.err)
    ELSE Nil

\* BuildOnly.run's loop over ExtraArgs from entry i on: the first build that
\* fails ends it.
RECURSIVE BuildLoop(_, _)
BuildLoop(procs, i) ==
    IF i > Len(procs) THEN Nil
    ELSE IF OutThenErr("build", captureWd(procs[i])) # Nil
    THEN OutThenErr("build", captureWd(procs[i]))
    ELSE BuildLoop(procs, i + 1)

\* The number of builds BuildOnly.run's loop has launched when it ends.
RECURSIVE BuildLaunched(_, _)
BuildLaunched(procs, i) ==
    IF i > Len(procs) THEN Len(procs)
    ELSE IF OutThenErr("build", captureWd(procs[i])) # Nil THEN i
    ELSE BuildLaunched(procs, i + 1)

BuildOnlyRun(procs) == IF Len(procs) = 0 THEN ExtraArgsError ELSE BuildLoop(procs, 1)

GofmtRun(p) == OutThenErr("gofmt", captureWd(p))

GoimportsRun(p) == OutThenErr("goimports", captureWd(p))

\* Errcheck.run: relToGOPATH of a directory may fail before the command runs.
ErrcheckRun(p, relErr) ==
    IF relErr THEN IOError("gopath") ELSE OutThenErr("errcheck", captureWd(p))

\* The loop of Golint.run and Govet.run over the lines of out: 'continue'
\* leaves the loop over the blacklist only, so every line is appended.
LintResult(out) == Split(out, "\n")

\* if len(result) == 0 { return errors.New(...) }; return nil
LintRun(name, p) ==
    IF Len(LintResult(captureWd(p).out)) = 0 THEN OutputError(name, <<>>) ELSE Nil

GolintRun(p) == LintRun("golint", p)

GovetRun(p) == LintRun("govet", p)

\* The custom check failing on any exit code but 0.
CustomAlwaysChecks(r, checkExitCode) ==
    IF r.exitCode # 0 THEN OutputError("custom", r.out) ELSE r.err

\* if exitCode != 0 && c.CheckExitCode { return the failure }; return err
CustomFailure(r, checkExitCode) ==
    IF r.exitCode # 0 /\ checkExitCode THEN OutputError("custom", r.out) ELSE r.err

CustomCheckRun(p, checkExitCode) == CustomFailure(captureWd(p), checkExitCode)

\* The checks of the model with what their commands do.
Single(variant) ==
    {[variant |-> variant, procs |-> <<p>>, checkExitCode |-> FALSE, relErr |-> FALSE] :
        p \in Processes}

CheckInputs ==
    {[variant |-> "build", procs |-> ps, checkExitCode |-> FALSE, relErr |-> FALSE] :
        ps \in UNION {[1..n -> Processes] : n \in 0..MaxExtraArgs}}
    \cup Single("gofmt") \cup Single("goimports") \cup Single("golint") \cup Single("govet")
    \cup {[c EXCEPT !.relErr = b] : c \in Single("errcheck"), b \in BOOLEAN}
    \cup {[c EXCEPT !.checkExitCode = b] : c \in Single("custom"), b \in BOOLEAN}

\* checkAdaptor.Run: the run() of the variant.
RunOf(c) ==
    CASE c.variant = "build" -> BuildOnlyRun(c.procs)
      [] c.variant = "gofmt" -> GofmtRun(c.procs[1])
      [] c.variant = "goimports" -> GoimportsRun(c.procs[1])
      [] c.variant = "errcheck" -> ErrcheckRun(c.procs[1], c.relErr)
      [] c.variant = "golint" -> GolintRun(c.procs[1])
      [] c.variant = "govet" -> GovetRun(c.procs[1])
      [] c.variant = "custom" -> CustomCheckRun(c.procs[1], c.checkExitCode)

CheckRun ==
    /\ chkPc = "start"
    /\ chkOut' = RunOf(chkIn)
    /\ chkPc' = "returned"
    /\ UNCHANGED <<cfgVars, queryVars, runVars, covVars, cmdVars, chkIn>>

InitCheck ==
    /\ runLevel = 0
    /\ config = DefaultConfig
    /\ QueryIdle /\ RunIdle /\ CovIdle
    /\ chkPc = "start"
    /\ chkIn \in CheckInputs
    /\ chkOut = <<>>
    /\ CmdIdle

NextCheck == CheckRun

SpecCheck == InitCheck /\ [][NextCheck]_vars

-----------------------------------------------------------------------------
(* The command line: mainImpl, install and the order of their steps.        *)

\* os.Args[1], "" when the program is run without a command.
CommandArgs ==
    {"", "installrun", "install", "i", "prereq", "p", "run", "r", "help", "writeconfig", "bogus"}

\* With no command, cmd = "installrun".
CmdOf(arg) == IF arg = "" THEN "installrun" ELSE arg

LevelError == [kind |-> "level"]
GitRootError == [kind |-> "gitroot"]
GitDirError == [kind |-> "gitdir"]
UnknownCommand == [kind |-> "unknown"]
PrereqError == [kind |-> "prereq"]
WriteError == [kind |-> "io", what |-> "hook"]

\* What a command line of the model meets: the -level flag, whether git finds
\* the checkout root and the .git directory, and what installPrereq, the
\* write of the hook and run return.
CommandInputs ==
    [arg : CommandArgs,
     level : -1..(MaxRunLevel + 1),
     gitRootOk : BOOLEAN,
     prereqErr : {Nil, PrereqError},
     gitDirOk : BOOLEAN,
     writeErr : {Nil, WriteError},
     runErr : {Nil, SummaryError(1)}]

\* mainImpl from its start to the call of the command.
MainStart ==
    /\ cmdPc = "start"
    /\ IF cmdIn.level < 0 \/ cmdIn.level > MaxRunLevel
         THEN cmdPc' = "returned" /\ cmdRet' = LevelError /\ UNCHANGED cmdLog
       ELSE IF ~cmdIn.gitRootOk
         THEN cmdPc' = "returned" /\ cmdRet' = GitRootError /\ UNCHANGED cmdLog
       ELSE IF CmdOf(cmdIn.arg) \in {"help", "writeconfig"}
         THEN /\ cmdPc' = "returned" /\ cmdRet' = Nil
              /\ cmdLog' = Append(cmdLog, CmdOf(cmdIn.arg))
       ELSE IF CmdOf(cmdIn.arg) \in {"install", "i", "installrun", "prereq", "p"}
         THEN cmdPc' = "prereq" /\ UNCHANGED <<cmdLog, cmdRet>>
       ELSE IF CmdOf(cmdIn.arg) \in {"run", "r"}
         THEN cmdPc' = "run" /\ UNCHANGED <<cmdLog, cmdRet>>
       ELSE cmdPc' = "returned" /\ cmdRet' = UnknownCommand /\ UNCHANGED cmdLog
    /\ UNCHANGED <<cfgVars, queryVars, runVars, covVars, chkVars, cmdIn>>

\* install going on to the hook whatever installPrereq returned.
AfterPrereqAlways(err) == "hook"

\* if err := installPrereq(name, runLevel); err != nil { return err }
AfterPrereq(err) == IF err # Nil THEN "returned" ELSE "hook"

\* installPrereq, called by the 'prereq' command or first thing by install.
MainPrereq ==
    /\ cmdPc = "prereq"
    /\ cmdLog' = Append(cmdLog, "prereq")
    /\ IF CmdOf(cmdIn.arg) \in {"prereq", "p"}
         THEN cmdPc' = "returned" /\ cmdRet' = cmdIn.prereqErr
         ELSE /\ cmdPc' = AfterPrereq(cmdIn.prereqErr)
              /\ cmdRet' = IF AfterPrereq(cmdIn.prereqErr) = "returned"
                           THEN cmdIn.prereqErr ELSE cmdRet
    /\ UNCHANGED <<cfgVars, queryVars, runVars, covVars, chkVars, cmdIn>>

\* The rest of install: the .git directory found, the hook removed and
\* written; then, for 'installrun', the return if install returned an error.
MainHook ==
    /\ cmdPc = "hook"
    /\ IF ~cmdIn.gitDirOk
         THEN cmdPc' = "returned" /\ cmdRet' = GitDirError /\ UNCHANGED cmdLog
         ELSE /\ cmdLog' = Append(cmdLog, "hook")
              /\ IF CmdOf(cmdIn.arg) = "installrun" /\ cmdIn.writeErr = Nil
                   THEN cmdPc' = "run" /\ UNCHANGED cmdRet
                   ELSE cmdPc' = "returned" /\ cmdRet' = cmdIn.writeErr
    /\ UNCHANGED <<cfgVars, queryVars, runVars, covVars, chkVars, cmdIn>>

\* return run(*configPath, *runLevel)
MainRun ==
    /\ cmdPc = "run"
    /\ cmdLog' = Append(cmdLog, "run")
    /\ cmdRet' = cmdIn.runErr
    /\ cmdPc' = "returned"
    /\ UNCHANGED <<cfgVars, queryVars, runVars, covVars, chkVars, cmdIn>>

InitMain ==
    /\ runLevel = 0
    /\ config = DefaultConfig
    /\ QueryIdle /\ RunIdle /\ CovIdle /\ ChkIdle
    /\ cmdPc = "start"
    /\ cmdIn \in CommandInputs
    /\ cmdLog = <<>>
    /\ cmdRet = Nil

NextMain == MainStart \/ MainPrereq \/ MainHook \/ MainRun

SpecMain == InitMain /\ [][NextMain]_vars

-----------------------------------------------------------------------------
(* The older run(): checks switched on and off, run from a table of names.  *)

\* The check objects of the older Config, each called by the name of its
\* field.
LegacyObjects ==
    <<"build", "gofmt", "testcoverage", "testrace", "errcheck", "goimports", "golint", "govet">>

CheckDef(name, check) == [name |-> name, check |-> check]

\* checks := []CheckDef{...} as written: the entry named golint holds
\* &config.Govet.
LegacyChecks ==
    <<CheckDef("build", "build"), CheckDef("gofmt", "gofmt"),
      CheckDef("testcoverage", "testcoverage"), CheckDef("testrace", "testrace"),
      CheckDef("errcheck", "errcheck"), CheckDef("goimports", "goimports"),
      CheckDef("golint", "govet"), CheckDef("govet", "govet")>>

\* The checks a document of the older model switches on or off; the others
\* are off.
LegacyConfigured == {"build", "golint", "govet"}

LegacyConfigs ==
    {[MaxDuration |-> MaxBudget + 1,
      Enabled |-> [o \in Range(LegacyObjects) |-> o \in LegacyConfigured /\ en[o]]] :
        en \in [LegacyConfigured -> BOOLEAN]}

\* A launched task as the goroutine sees it: the entry's name, its object and
\* the object's maxDuration() (0: the global one applies).
LegacyTask(def) == [name |-> def.name, check |-> def.check, MaxDuration |-> 0]

\* make(chan error, len(checks))
LegacyErrsCap == Len(LegacyChecks)

\* for _, c := range checks { if !c.check.enabled() { continue }; go ... }
LegacyRunStart ==
    /\ mainPc = "start"
    /\ enabledChecks' =
          [i \in DOMAIN SelectSeq(LegacyChecks, LAMBDA def : config.Enabled[def.check]) |->
              LegacyTask(SelectSeq(LegacyChecks, LAMBDA def : config.Enabled[def.check])[i])]
    /\ taskPc' = [i \in DOMAIN enabledChecks' |-> "ready"]
    /\ taskErr' = [i \in DOMAIN enabledChecks' |-> Nil]
    /\ taskDur' = [i \in DOMAIN enabledChecks' |-> 0]
    /\ errs' = <<>>
    /\ mainPc' = "wait"
    /\ UNCHANGED <<cfgVars, queryVars, covVars, chkVars, cmdVars, printed, lastErr, ret>>

\* err := check.check.run(): the error is the object's, whatever the name.
LegacyTaskRun(i) ==
    /\ taskPc[i] = "ready"
    /\ \E e \in {Nil, CheckError(enabledChecks[i].check)}, d \in Durations :
          /\ taskErr' = [taskErr EXCEPT ![i] = e]
          /\ taskDur' = [taskDur EXCEPT ![i] = d]
    /\ taskPc' = [taskPc EXCEPT ![i] = "ran"]
    /\ UNCHANGED <<cfgVars, queryVars, covVars, chkVars, cmdVars, mainPc, enabledChecks, errs, printed, lastErr, ret>>

LegacyTaskSendErr(i) ==
    /\ taskPc[i] = "ran"
    /\ IF taskErr[i] # Nil
         THEN /\ Len(errs) < LegacyErrsCap
              /\ errs' = Append(errs, taskErr[i])
         ELSE UNCHANGED errs
    /\ taskPc' = [taskPc EXCEPT ![i] = "timed"]
    /\ UNCHANGED <<cfgVars, queryVars, covVars, chkVars, cmdVars, mainPc, enabledChecks, taskErr, taskDur, printed, lastErr, ret>>

LegacyTaskSendBudget(i) ==
    /\ taskPc[i] = "timed"
    /\ IF TookTooLong(taskDur[i], enabledChecks[i], config)
         THEN /\ Len(errs) < LegacyErrsCap
              /\ errs' = Append(errs, BudgetError(enabledChecks[i].name, taskDur[i]))
         ELSE UNCHANGED errs
    /\ taskPc' = [taskPc EXCEPT ![i] = "done"]
    /\ UNCHANGED <<cfgVars, queryVars, covVars, chkVars, cmdVars, mainPc, enabledChecks, taskErr, taskDur, printed, lastErr, ret>>

InitLegacy ==
    /\ runLevel = 0
    /\ config \in LegacyConfigs
    /\ QueryIdle /\ RunIdle /\ CovIdle /\ ChkIdle /\ CmdIdle

NextLegacy ==
    \/ LegacyRunStart
    \/ \E i \in Tasks : LegacyTaskRun(i)
    \/ \E i \in Tasks : LegacyTaskSendErr(i)
    \/ \E i \in Tasks : LegacyTaskSendBudget(i)
    \/ RunWait
    \/ RunDrain
    \/ RunReturn

SpecLegacy == InitLegacy /\ [][NextLegacy]_vars

-----------------------------------------------------------------------------
(* The emission of the merged profile on its own, over maps of counts.      *)

\* Statement keys of the maps: the two of the sample profiles, a key that is
\* the beginning of another, keys that differ at a space and at a digit.
EmitKeys ==
    {KeyA, KeyB, <<"a">>, <<"a", ":", "1">>, <<"a", ":", "1", " ", "1", "0">>}

EmitCounts == {0, 12}

\* The maps counts can be after the merge: every set of keys, every count.
EmitInputs == UNION {[ks -> EmitCounts] : ks \in SUBSET EmitKeys}

\* sort.Strings(stms), the header and one Fprintf per statement.
EmitRun ==
    /\ chkPc = "start"
    /\ chkOut' = EmitProfile(chkIn)
    /\ chkPc' = "returned"
    /\ UNCHANGED <<cfgVars, queryVars, runVars, covVars, cmdVars, chkIn>>

InitEmit ==
    /\ runLevel = 0
    /\ config = DefaultConfig
    /\ QueryIdle /\ RunIdle /\ CovIdle /\ CmdIdle
    /\ chkPc = "start"
    /\ chkIn \in EmitInputs
    /\ chkOut = <<>>

NextEmit == EmitRun

SpecEmit == InitEmit /\ [][NextEmit]_vars

-----------------------------------------------------------------------------
(* The analysis of the summarizer's output on its own, over outputs row by  *)
(* row.                                                                     *)

\* Most rows after the first line in an output of the model.
MaxRows == 2

\* A row as the summarizer prints it for a function or for the total.
FnRow(loc, name, percent) ==
    [wellFormed |-> TRUE, loc |-> loc, name |-> name, percent |-> percent,
     text |-> SummaryRow(loc, name, FormatTenths(percent))]

\* Any other line.
RawRow(text) ==
    [wellFormed |-> FALSE, loc |-> <<>>, name |-> <<>>, percent |-> 0,
     text |-> text \o <<"\n">>]

\* The rows of the model: two functions, one of them printed with two
\* percentages, totals just below and at the default minimum, and lines with
\* one field, with two fields, with a percent that is no number, with a
\* percent without its sign and with no percent at all.
SampleRows ==
    {FnRow(FuncF.loc, FuncF.name, 1000), FnRow(FuncF.loc, FuncF.name, 0),
     FnRow(FuncG.loc, FuncG.name, 500),
     FnRow(TotalLoc, <<"a", "l", "l">>, DefaultMinimumCoverage - 1),
     FnRow(TotalLoc, <<"a", "l", "l">>, DefaultMinimumCoverage),
     RawRow(<<"a", ":">>),
     RawRow(<<"a", ":", "\t", "f">>),
     RawRow(<<"a", ":", "\t", "f", "\t", "\t", "x", "%">>),
     RawRow(<<"a", ":", "\t", "f", "\t", "\t", "1", "2", ".", "5">>),
     RawRow(<<"a", ":", "\t", "f", "\t", "\t">>)}

RECURSIVE RowsText(_)
RowsText(rows) == IF rows = <<>> THEN <<>> ELSE rows[1].text \o RowsText(Tail(rows))

\* What capture returns as out: a first line, then the rows.
OutputOf(rows) == <<"f", "n", "\n">> \o RowsText(rows)

SummaryInputs ==
    [rows : UNION {[1..n -> SampleRows] : n \in 0..MaxRows},
     MinimumCoverage : {0, DefaultMinimumCoverage}]

\* The summarizer having run and printed the rows.
Printed(rows) == [launched |-> TRUE, summary |-> BrokenSummary(OutputOf(rows))]

\* The environment of the analysis on its own: no input/output error, no
\* upload, the removal of tmpDir succeeding.
SummaryEnv(rows) ==
    [io |-> "none", cover |-> Printed(rows), upload |-> NotStarted, remove |-> Nil]

\* "Analyze the results" to 'return err2' with no test failure queued and
\* TRAVIS_JOB_ID not set.
SummaryRun ==
    /\ chkPc = "start"
    /\ chkOut' = Analyze(EmptyCounts, <<ModeCount>>, <<>>,
                         [MinimumCoverage |-> chkIn.MinimumCoverage, travis |-> FALSE, dirs |-> 1],
                         SummaryEnv(chkIn.rows))
    /\ chkPc' = "returned"
    /\ UNCHANGED <<cfgVars, queryVars, runVars, covVars, cmdVars, chkIn>>

InitSummary ==
    /\ runLevel = 0
    /\ config = DefaultConfig
    /\ QueryIdle /\ RunIdle /\ CovIdle /\ CmdIdle
    /\ chkPc = "start"
    /\ chkIn \in SummaryInputs
    /\ chkOut = <<>>

NextSummary == SummaryRun

SpecSummary == InitSummary /\ [][NextSummary]_vars

-----------------------------------------------------------------------------
(* One data line of a profile on its own: the body of the merge loop.      *)

MaxLineLen == 3

\* The characters of a data line: a letter, the separator and a digit.
LineChars == {"a", " ", "1"}

\* Every line of at most MaxLineLen characters, the empty line included.
Lines == UNION {[1..n -> LineChars] : n \in 0..MaxLineLen}

\* The map the line is merged into: empty, or holding the key "a" already.
LineCounts == {EmptyCounts, [k \in {<<"a">>} |-> 2]}

\* The body of 'for s.Scan()' for one line: items := rsplitn(s.Text(), " ", 2),
\* then the count parsed from items[1] and added under items[0].
LineRun ==
    /\ chkPc = "start"
    /\ chkOut' = [items |-> rsplitn(chkIn.line, " ", 2),
                  merged |-> MergeLine(chkIn.counts, chkIn.line)]
    /\ chkPc' = "returned"
    /\ UNCHANGED <<cfgVars, queryVars, runVars, covVars, cmdVars, chkIn>>

InitLine ==
    /\ runLevel = 0
    /\ config = DefaultConfig
    /\ QueryIdle /\ RunIdle /\ CovIdle /\ CmdIdle
    /\ chkPc = "start"
    /\ chkIn \in [line : Lines, counts : LineCounts]
    /\ chkOut = <<>>

NextLine == LineRun

SpecLine == InitLine /\ [][NextLine]_vars

-----------------------------------------------------------------------------
(* installPrereq: one probe per prerequisite of the enabled checks, the URLs *)
(* of the missing ones queued, then one 'go get' for all of them.            *)

\* A CheckPrerequisite by its URL; whether its HelpCommand exits with
\* ExpectedExitCode is what the probe finds.
Prerequisite(url) == [URL |-> url]

\* The URLs of the built-in prerequisites and of a custom one, shortened.
ErrcheckURL == <<"e">>
GoimportsURL == <<"m">>
GolintURL == <<"l">>
GovetURL == <<"t">>
CoverURL == <<"c">>
GoverallsURL == <<"g">>
CustomURL == <<"x">>

\* check.GetPrerequisites(), with TRAVIS_JOB_ID set or not.
GetPrerequisites(check, travis) ==
    CASE check.name = "errcheck" -> <<Prerequisite(ErrcheckURL)>>
      [] check.name = "goimports" -> <<Prerequisite(GoimportsURL)>>
      [] check.name = "golint" -> <<Prerequisite(GolintURL)>>
      [] check.name = "govet" -> <<Prerequisite(GovetURL)>>
      [] check.name = "testcoverage" ->
            <<Prerequisite(CoverURL)>> \o
            (IF travis THEN <<Prerequisite(GoverallsURL)>> ELSE <<>>)
      [] check.name = "custom" -> check.Prerequisites
      [] OTHER -> <<>>

\* A custom check of a configuration document with its Prerequisites.
CustomWith(prereqs) ==
    [name |-> "custom", RunLevel |-> 0, MaxDuration |-> 0, Prerequisites |-> prereqs]

\* The custom checks of the documents: without a prerequisite, or with two,
\* one of them errcheck's.
PrereqCustoms ==
    {CustomWith(<<>>), CustomWith(<<Prerequisite(CustomURL), Prerequisite(ErrcheckURL)>>)}

\* The checks whose RunLevel the documents of this model set; every other
\* built-in check is given a RunLevel no -level flag reaches.
PrereqConfigured == {"build", "errcheck", "testcoverage"}

PrereqConfigs ==
    {[MaxDuration |-> DefaultMaxDuration,
      RunLevel |-> [n \in Range(BuiltinNames) |->
                        IF n \in PrereqConfigured THEN lv[n] ELSE MaxRunLevel + 1],
      CheckMaxDuration |-> [n \in Range(BuiltinNames) |-> 0],
      CustomChecks |-> cs] :
        lv \in [PrereqConfigured -> {0, MaxRunLevel}],
        cs \in UNION {[1..n -> PrereqCustoms] : n \in 0..MaxCustom}}

\* for _, check := range enabledChecks { for _, p := range
\* check.GetPrerequisites() { ... } }: the prerequisites in launch order.
RECURSIVE Probes(_, _, _)
Probes(checks, i, travis) ==
    IF i > Len(checks) THEN <<>>
    ELSE GetPrerequisites(checks[i], travis) \o Probes(checks, i + 1, travis)

\* c := make(chan string, len(enabledChecks))
PrereqCap(checks) == Len(checks)

InstallError(detail) == [kind |-> "prereq", detail |-> detail]

\* One 'go get' as installPrereq launches it.
GoGet(update, urls) == [update |-> update, urls |-> urls]

\* The commands run for urls: 'go get', then 'go get -u' if the first printed
\* something or failed.
GoGetRuns(urls, first) ==
    IF first.out # <<>> \/ first.err # Nil
    THEN <<GoGet(FALSE, urls), GoGet(TRUE, urls)>>
    ELSE <<GoGet(FALSE, urls)>>

\* out and err after the two attempts, and the error made of them.
GoGetResult(first, second) ==
    LET last == IF first.out # <<>> \/ first.err # Nil THEN second ELSE first
    IN IF last.out # <<>> THEN InstallError(last.out)
       ELSE IF last.err # Nil THEN InstallError(last.err)
       ELSE Nil

ProbeTasks == DOMAIN taskPc

\* installPrereq up to wg.Wait(): the channel and one goroutine per
\* prerequisite of every enabled check.
PrereqStart ==
    /\ mainPc = "pstart"
    /\ enabledChecks' = EnabledChecks(config, runLevel)
    /\ \E travis \in BOOLEAN : taskErr' = Probes(enabledChecks', 1, travis)
    /\ taskPc' = [i \in DOMAIN taskErr' |-> "ready"]
    /\ errs' = <<>>
    /\ mainPc' = "pwait"
    /\ UNCHANGED <<cfgVars, queryVars, covVars, chkVars, cmdVars, taskDur, printed, lastErr, ret>>

\* _, exitCode, _ := capture(prereq.HelpCommand...): the exit code is the
\* expected one, or it is not.
Probe(i) ==
    /\ mainPc = "pwait"
    /\ taskPc[i] = "ready"
    /\ \E expected \in BOOLEAN :
          taskPc' = [taskPc EXCEPT ![i] = IF expected THEN "present" ELSE "missing"]
    /\ UNCHANGED <<cfgVars, queryVars, covVars, chkVars, cmdVars, mainPc, enabledChecks, taskErr, taskDur, errs, printed, lastErr, ret>>

\* c <- prereq.URL: the send waits while the channel is full; wg.Done().
ProbeSend(i) ==
    /\ mainPc = "pwait"
    /\ taskPc[i] = "missing"
    /\ Len(errs) < PrereqCap(enabledChecks)
    /\ errs' = Append(errs, taskErr[i].URL)
    /\ taskPc' = [taskPc EXCEPT ![i] = "sent"]
    /\ UNCHANGED <<cfgVars, queryVars, covVars, chkVars, cmdVars, mainPc, enabledChecks, taskErr, taskDur, printed, lastErr, ret>>

\* wg.Wait() returns once every probe has called wg.Done().
PrereqWait ==
    /\ mainPc = "pwait"
    /\ \A i \in ProbeTasks : taskPc[i] \in {"sent", "present"}
    /\ mainPc' = "pdrain"
    /\ UNCHANGED <<cfgVars, queryVars, covVars, chkVars, cmdVars, enabledChecks, taskPc, taskErr, taskDur, errs, printed, lastErr, ret>>

\* The channel emptied into the map m, the URLs sorted and, if there is one,
\* installed; printed keeps the 'go get' commands that were run.
PrereqInstall ==
    /\ mainPc = "pdrain"
    /\ errs' = <<>>
    /\ IF Range(errs) = {}
         THEN ret' = Nil /\ UNCHANGED printed
         ELSE \E p1 \in Processes, p2 \in Processes :
                 /\ printed' = GoGetRuns(SortStrings(Range(errs)), captureWd(p1))
                 /\ ret' = GoGetResult(captureWd(p1), captureWd(p2))
    /\ mainPc' = "preturned"
    /\ UNCHANGED <<cfgVars, queryVars, covVars, chkVars, cmdVars, enabledChecks, taskPc, taskErr, taskDur, lastErr>>

\* The 'prereq' command, or the first step of 'install': the -level flag
\* and the configuration document.
InitPrereq ==
    /\ runLevel \in {0, MaxRunLevel}
    /\ config \in PrereqConfigs
    /\ QueryIdle /\ CovIdle /\ ChkIdle /\ CmdIdle
    /\ mainPc = "pstart" /\ enabledChecks = <<>> /\ taskPc = <<>> /\ taskErr = <<>>
    /\ taskDur = <<>> /\ errs = <<>> /\ printed = <<>> /\ lastErr = Nil
    /\ ret = NotReturned

NextPrereq ==
    \/ PrereqStart
    \/ \E i \in ProbeTasks : Probe(i)
    \/ \E i \in ProbeTasks : ProbeSend(i)
    \/ PrereqWait
    \/ PrereqInstall

SpecPrereq == InitPrereq /\ [][NextPrereq]_vars

-----------------------------------------------------------------------------
(* goDirs: the directory walk kept in goDirsCache under goDirsCacheLock,     *)
(* called from several goroutines of one process.                            *)

MaxCallers == 2

\* The directories a walk may find '*.go' or '*_test.go' files in.
DirNames == {<<"a">>, <<"b">>}

\* Lock() going through whoever holds the lock.
CanLockAlways(holder) == TRUE

\* goDirsCacheLock.Lock() goes through when nobody holds the lock.
CanLock(holder) == holder = 0

\* goDirsCache = map[bool][]string{...} with both lists sorted.
DirsCache(source, tests) ==
    [t \in BOOLEAN |-> IF t THEN SortStrings(tests) ELSE SortStrings(source)]

Callers == DOMAIN covTask

\* goDirsCacheLock.Lock()
GoDirsLock(i) ==
    /\ covPc = "godirs"
    /\ covTask[i] = "ready"
    /\ CanLock(covOut.holder)
    /\ covOut' = [covOut EXCEPT !.holder = i]
    /\ covTask' = [covTask EXCEPT ![i] = "locked"]
    /\ UNCHANGED <<cfgVars, queryVars, runVars, chkVars, cmdVars, covPc, covCfg, covFiles, covErrs>>

\* if goDirsCache != nil { return goDirsCache[tests] }, then the deferred
\* Unlock().
GoDirsCached(i) ==
    /\ covPc = "godirs"
    /\ covTask[i] = "locked"
    /\ covOut.cache # Nil
    /\ covFiles' = [covFiles EXCEPT ![i] = covOut.cache[covCfg[i]]]
    /\ covOut' = [covOut EXCEPT !.holder = 0]
    /\ covTask' = [covTask EXCEPT ![i] = "returned"]
    /\ UNCHANGED <<cfgVars, queryVars, runVars, chkVars, cmdVars, covPc, covCfg, covErrs>>

\* The cache is found nil: the panic if the working directory cannot be
\* read, which runs the deferred Unlock() and ends the process; else on to
\* the walk.
GoDirsMiss(i) ==
    /\ covPc = "godirs"
    /\ covTask[i] = "locked"
    /\ covOut.cache = Nil
    /\ \/ /\ covTask' = [covTask EXCEPT ![i] = "panicked"]
          /\ covOut' = [covOut EXCEPT !.holder = 0]
          /\ covPc' = "crashed"
       \/ /\ covTask' = [covTask EXCEPT ![i] = "walking"]
          /\ UNCHANGED <<covPc, covOut>>
    /\ UNCHANGED <<cfgVars, queryVars, runVars, chkVars, cmdVars, covCfg, covFiles, covErrs>>

\* The walk of the tree as it is now, the two sorted lists stored and the
\* one asked for returned; then the deferred Unlock().
GoDirsWalk(i) ==
    /\ covPc = "godirs"
    /\ covTask[i] = "walking"
    /\ \E source \in SUBSET DirNames, tests \in SUBSET DirNames :
          /\ covOut' = [holder |-> 0, cache |-> DirsCache(source, tests),
                        walks |-> covOut.walks + 1]
          /\ covFiles' = [covFiles EXCEPT ![i] = DirsCache(source, tests)[covCfg[i]]]
          /\ covTask' = [covTask EXCEPT ![i] = "returned"]
    /\ UNCHANGED <<cfgVars, queryVars, runVars, chkVars, cmdVars, covPc, covCfg, covErrs>>

\* A process in which up to MaxCallers goroutines call goDirs, each with its
\* argument; goDirsCache is nil and the lock is free.
InitGoDirs ==
    /\ runLevel = 0
    /\ config = DefaultConfig
    /\ QueryIdle /\ RunIdle /\ ChkIdle /\ CmdIdle
    /\ covPc = "godirs"
    /\ covCfg \in UNION {[1..n -> BOOLEAN] : n \in 1..MaxCallers}
    /\ covTask = [i \in DOMAIN covCfg |-> "ready"]
    /\ covFiles = [i \in DOMAIN covCfg |-> NotReturned]
    /\ covErrs = <<>>
    /\ covOut = [holder |-> 0, cache |-> Nil, walks |-> 0]

NextGoDirs ==
    \/ \E i \in Callers : GoDirsLock(i)
    \/ \E i \in Callers : GoDirsCached(i)
    \/ \E i \in Callers : GoDirsMiss(i)
    \/ \E i \in Callers : GoDirsWalk(i)

SpecGoDirs == InitGoDirs /\ [][NextGoDirs]_vars

-----------------------------------------------------------------------------
(* The Test check: Test.run, one round of 'go test' runs per ExtraArgs entry. *)

\* What 'go test' does in one directory: not started, passed, failed.
TestProcesses == {NotStarted, Exited(0, <<>>), Exited(1, <<"x">>)}

RelError(variant, dir) == [kind |-> "gopath", variant |-> variant, dir |-> dir]
TestRunError(variant, dir, out) ==
    [kind |-> "testfailed", variant |-> variant, dir |-> dir, out |-> out]

\* The goroutine of one directory: relToGOPATH's error, or the error made of
\* the output when exitCode != 0, or nothing.
TestTaskError(variant, dir, relErr, r) ==
    IF relErr THEN RelError(variant, dir)
    ELSE IF r.exitCode # 0 THEN TestRunError(variant, dir, r.out)
    ELSE Nil

\* A channel for one error whatever the number of directories.
TestErrsCapOne(dirs) == 1

\* errs := make(chan error, len(testDirs))
TestErrsCap(dirs) == dirs

\* The round of entry k of ExtraArgs launched: a new channel and one
\* goroutine per test directory.
TestRound(k) ==
    /\ covOut' = [ret |-> NotReturned, variant |-> k,
                  launched |-> IF covOut = <<>> THEN <<k>> ELSE Append(covOut.launched, k)]
    /\ covTask' = [i \in 1..covCfg.dirs |-> "ready"]
    /\ covFiles' = [i \in 1..covCfg.dirs |-> "none"]
    /\ covErrs' = <<>>
    /\ covPc' = "ttesting"

\* Test.run up to the goroutines of the first entry of ExtraArgs.
TestStart ==
    /\ covPc = "tstart"
    /\ IF covCfg.extraArgs = 0
         THEN /\ covOut' = [ret |-> ExtraArgsError, variant |-> 0, launched |-> <<>>]
              /\ covPc' = "treturned"
              /\ UNCHANGED <<covTask, covFiles, covErrs>>
         ELSE TestRound(1)
    /\ UNCHANGED <<cfgVars, queryVars, runVars, chkVars, cmdVars, covCfg>>

\* One goroutine of the round: it sends one error at most, then wg.Done().
TestTask(i) ==
    /\ covPc = "ttesting"
    /\ covTask[i] = "ready"
    /\ \E relErr \in BOOLEAN, p \in TestProcesses :
          /\ covFiles' = [covFiles EXCEPT ![i] =
                            IF TestTaskError(covOut.variant, i, relErr, captureWd(p)) = Nil
                            THEN "passed" ELSE "failed"]
          /\ IF TestTaskError(covOut.variant, i, relErr, captureWd(p)) # Nil
               THEN /\ Len(covErrs) < TestErrsCap(covCfg.dirs)
                    /\ covErrs' = Append(covErrs, TestTaskError(covOut.variant, i, relErr, captureWd(p)))
               ELSE UNCHANGED covErrs
    /\ covTask' = [covTask EXCEPT ![i] = "done"]
    /\ UNCHANGED <<cfgVars, queryVars, runVars, chkVars, cmdVars, covPc, covCfg, covOut>>

\* wg.Wait(), then select { case err := <-errs: return err; default: }, then
\* the next entry of ExtraArgs or 'return nil'.
TestJoin ==
    /\ covPc = "ttesting"
    /\ \A i \in Dirs : covTask[i] = "done"
    /\ IF covErrs # <<>>
         THEN /\ covOut' = [covOut EXCEPT !.ret = Head(covErrs)]
              /\ covErrs' = Tail(covErrs)
              /\ covPc' = "treturned"
              /\ UNCHANGED <<covTask, covFiles>>
         ELSE IF covOut.variant < covCfg.extraArgs
         THEN TestRound(covOut.variant + 1)
         ELSE /\ covOut' = [covOut EXCEPT !.ret = Nil]
              /\ covPc' = "treturned"
              /\ UNCHANGED <<covTask, covFiles, covErrs>>
    /\ UNCHANGED <<cfgVars, queryVars, runVars, chkVars, cmdVars, covCfg>>

\* The Test check called with its ExtraArgs and the test directories found.
InitTest ==
    /\ runLevel = 0
    /\ config = DefaultConfig
    /\ QueryIdle /\ RunIdle /\ ChkIdle /\ CmdIdle
    /\ covPc = "tstart"
    /\ covCfg \in [dirs : 0..MaxDirs, extraArgs : 0..MaxExtraArgs]
    /\ covTask = <<>> /\ covFiles = <<>> /\ covErrs = <<>> /\ covOut = <<>>

NextTest ==
    \/ TestStart
    \/ \E i \in Dirs : TestTask(i)
    \/ TestJoin

SpecTest == InitTest /\ [][NextTest]_vars

\* The two checks that run 'go test' per directory, each with its own queue.
InitNested == InitCov \/ InitTest

NextNested == NextCov \/ NextTest

SpecNested == InitNested /\ [][NextNested]_vars

-----------------------------------------------------------------------------
(* Claims about continuous-integration mode, the checks' commands and the  *)
(* temporary directory.                                                     *)

UploadFailed == ~covOut.upload.started \/ covOut.upload.exitCode # 0

\* C11: with TRAVIS_JOB_ID set, a check that comes to its threshold never
\* returns the threshold error, and returns an error when the upload failed.
C11_CISkipsThreshold ==
    (Decided /\ covCfg.travis) =>
        /\ covOut.res.ret.kind # "threshold"
        /\ UploadFailed => covOut.res.ret # Nil

\* A command of the check could not be started or exited with a code other
\* than 0.
CommandFailed ==
    \E k \in DOMAIN chkIn.procs : ~chkIn.procs[k].started \/ chkIn.procs[k].exitCode # 0

\* C12: the run of a built-in check whose command could not be started or
\* exited with a code other than 0 returns an error, so that it returns nil
\* only when its commands were started and exited with 0.
C12_CommandFailureIsError ==
    (chkPc = "returned" /\ chkIn.variant # "custom") =>
        (CommandFailed => chkOut # Nil)

CustomProc == chkIn.procs[1]

\* C13 as stated: the custom check returns an error only if the exit code is
\* not 0 and CheckExitCode is set.
C13_CustomFailsOnlyOnExitCode ==
    (chkPc = "returned" /\ chkIn.variant = "custom") =>
        (chkOut # Nil => (captureWd(CustomProc).exitCode # 0 /\ chkIn.checkExitCode))

\* C13: a custom check whose command ran returns an error exactly when the
\* exit code is not 0 and CheckExitCode is set; a command that could not be
\* started makes it return an error whatever CheckExitCode is.
C13_CustomCheckFailure ==
    (chkPc = "returned" /\ chkIn.variant = "custom") =>
        /\ CustomProc.started =>
              (chkOut # Nil <=> (CustomProc.exitCode # 0 /\ chkIn.checkExitCode))
        /\ ~CustomProc.started => chkOut # Nil

C13_Witness ==
    /\ chkPc = "returned"
    /\ chkIn.variant = "custom"
    /\ CustomProc.started /\ CustomProc.exitCode # 0 /\ ~chkIn.checkExitCode
    /\ chkOut = Nil

\* The check made its temporary directory and has ended.
TmpDirMade == CovEnded /\ covOut.tmpDir # "none"

-----------------------------------------------------------------------------
(* Claims about the command line.                                           *)

InstallRun == cmdPc # "idle" /\ CmdOf(cmdIn.arg) = "installrun"

IsPrefix(s, t) == Len(s) <= Len(t) /\ s = SubSeq(t, 1, Len(s))

\* C15: 'installrun', also the command when none is given, installs the
\* prerequisites, then the hook, then runs the checks, in that order; the
\* hook is not written when installPrereq returned an error and run is not
\* called when install returned an error; with no error all three are done
\* and what run returned is returned.
C15_InstallRunOrder ==
    InstallRun =>
        /\ IsPrefix(cmdLog, <<"prereq", "hook", "run">>)
        /\ Len(cmdLog) >= 2 => cmdIn.prereqErr = Nil
        /\ Len(cmdLog) = 3 =>
              cmdIn.prereqErr = Nil /\ cmdIn.gitDirOk /\ cmdIn.writeErr = Nil
        /\ (cmdPc = "returned" /\ cmdIn.level \in RunLevelFlags /\ cmdIn.gitRootOk
              /\ cmdIn.prereqErr = Nil /\ cmdIn.gitDirOk /\ cmdIn.writeErr = Nil)
              => cmdLog = <<"prereq", "hook", "run">> /\ cmdRet = cmdIn.runErr

C15_Witness ==
    /\ InstallRun
    /\ cmdIn.arg = ""
    /\ cmdPc = "returned"
    /\ cmdLog = <<"prereq", "hook", "run">>

-----------------------------------------------------------------------------
(* Claims about the result queue, the join barrier and the drain.           *)

\* Task i is at a send on errs that cannot complete: the channel is full.
SendBlocked(i) ==
    /\ Len(errs) >= ErrsCap(enabledChecks)
    /\ \/ taskPc[i] = "ran" /\ taskErr[i] # Nil
       \/ taskPc[i] = "timed" /\ TookTooLong(taskDur[i], enabledChecks[i], config)

\* C16: no task is ever at a send of a run error or of a budget error with
\* the channel, of capacity len(enabledChecks), full: every send completes
\* at once.
C16_NoSendBlocks == \A i \in Tasks : ~SendBlocked(i)

\* C17: with every check's run terminating and every goroutine that can move
\* moving in the end, every task reaches wg.Done(), wg.Wait() returns and
\* run() returns.
C17_RunTerminates == <>(mainPc = "returned")

\* The errors check i has to post: its run error and its budget error.
Owed(i) ==
    (IF RunFailed(i) THEN {CheckError(enabledChecks[i].name)} ELSE {})
    \cup (IF OverBudget(i) THEN {BudgetError(enabledChecks[i].name, taskDur[i])} ELSE {})

\* C18: the drain of errs has begun only if every launched task has come to
\* its wg.Done(): each check's run has returned, also the one that overran its
\* budget, and each has its run error and its budget error on the channel or
\* printed.
C18_DrainAfterAllDone ==
    mainPc \in {"drain", "returned"} =>
        \A i \in Tasks :
            /\ taskPc[i] = "done"
            /\ Owed(i) \subseteq Posted
            /\ Contributed(i) = Cardinality(Owed(i))

\* The drain about to begin with a check that failed and overran its budget.
C18_Witness ==
    /\ mainPc = "drain"
    /\ printed = <<>>
    /\ \E i \in Tasks : RunFailed(i) /\ OverBudget(i) /\ Owed(i) \subseteq Range(errs)

\* The state of the drain loop: at the select or past the return.
Draining == mainPc \in {"drain", "returned"}

\* C19: the drain never waits (at the select either an error is received or
\* the default branch returns); each receive prints the head of the channel,
\* so what is printed followed by what is queued never changes during the
\* drain; at the return the channel is empty, every error a check posted has
\* been printed once, and the summary error is returned iff an error was
\* drained.
C19_Drain ==
    /\ [](mainPc = "drain" => ENABLED (RunDrain \/ RunReturn))
    /\ [][Draining => printed' \o errs' = printed \o errs]_vars
    /\ [](mainPc = "returned" =>
            /\ errs = <<>>
            /\ \A i \in Tasks :
                  /\ Owed(i) \subseteq Range(printed)
                  /\ Contributed(i) = Cardinality(Owed(i))
            /\ printed = <<>> => ret = Nil
            /\ printed # <<>> <=> ret.kind = "summary")

\* run() returned after it drained and printed two errors or more.
C19_Witness ==
    /\ mainPc = "returned"
    /\ Len(printed) >= 2
    /\ errs = <<>>
    /\ ret.kind = "summary"

-----------------------------------------------------------------------------
(* Claims about which checks are run.                                       *)

\* The tasks of the older run() that run object o.
TasksOf(o) == {i \in Tasks : enabledChecks[i].check = o}

\* C20: once the tasks are launched each enabled check object is run by
\* exactly one task, under its own name, and a disabled one by none.
C20_OneTaskPerCheck ==
    mainPc # "start" =>
        \A o \in Range(LegacyObjects) :
            /\ Cardinality(TasksOf(o)) = (IF config.Enabled[o] THEN 1 ELSE 0)
            /\ \A i \in TasksOf(o) : enabledChecks[i].name = o

-----------------------------------------------------------------------------
(* Claims about the merged profile, the summary and the test runs.          *)

\* The key of line i of the emitted profile: what stands before its last
\* space.
EmittedKey(i) == rsplitn(chkOut[i], " ", 2)[1]

\* C21: the emitted profile is the line "mode: count" followed by exactly one
\* line "<key> <count>" for each key of the merged counts, the keys in
\* strictly increasing byte order.
C21_EmittedProfileSorted ==
    chkPc = "returned" =>
        /\ chkOut[1] = ModeCount
        /\ Len(chkOut) = 1 + Cardinality(DOMAIN chkIn)
        /\ \A k \in DOMAIN chkIn :
              Cardinality({i \in 2..Len(chkOut) :
                              chkOut[i] = k \o <<" ">> \o Itoa(chkIn[k])}) = 1
        /\ \A i \in 2..(Len(chkOut) - 1) : StringLess(EmittedKey(i), EmittedKey(i + 1))

\* A profile of four keys or more, one the beginning of another.
C21_Witness ==
    /\ chkPc = "returned"
    /\ Len(chkOut) >= 5
    /\ {<<"a">>, <<"a", ":", "1">>, KeyB} \subseteq DOMAIN chkIn
    /\ chkOut[2] = <<"a", " ", "1", "2">>

\* The analysis came to its threshold.
SummaryDecided == chkPc = "returned" /\ chkOut.stage = "decided"

\* Other per-function rows the summarizer could have printed.
OtherFunctionRows ==
    UNION {[1..n -> {r \in SampleRows : r.wellFormed /\ r.loc # TotalLoc}] : n \in 0..2}

\* The analysis of an output with the function rows fns and the total of the
\* analysis done, under the same minimum.
WithFunctions(fns) ==
    Analyze(EmptyCounts, <<ModeCount>>, <<>>,
            [MinimumCoverage |-> chkIn.MinimumCoverage, travis |-> FALSE, dirs |-> 1],
            SummaryEnv(fns \o <<FnRow(TotalLoc, <<"a", "l", "l">>, chkOut.total)>>))

\* C22: once the check has come to its threshold, an output with the same
\* total and any other per-function percentages gives, under the same
\* minimum, the same pass or fail: the count of untested functions has no
\* part in it.
C22_UntestedCountNoInfluence ==
    SummaryDecided =>
        \A fns \in OtherFunctionRows :
            /\ WithFunctions(fns).stage = "decided"
            /\ WithFunctions(fns).total = chkOut.total
            /\ (WithFunctions(fns).ret = Nil) <=> (chkOut.ret = Nil)

\* The check passed with a total at the minimum and a function not fully
\* tested.
C22_Witness ==
    /\ SummaryDecided
    /\ chkIn.MinimumCoverage = DefaultMinimumCoverage
    /\ chkOut.total = DefaultMinimumCoverage
    /\ Partial(chkOut.coverage) > 0
    /\ chkOut.ret = Nil

Rows == chkIn.rows
AllWellFormed == \A i \in DOMAIN Rows : Rows[i].wellFormed
TotalRows == {i \in DOMAIN Rows : Rows[i].loc = TotalLoc}
FunctionRows == DOMAIN Rows \ TotalRows
Last(S) == CHOOSE i \in S : \A j \in S : j <= i
RowsOf(key) == {i \in FunctionRows : <<Rows[i].loc, Rows[i].name>> = key}

\* C23: for an output whose rows all have their three fields and a percent,
\* the total is the percent of the row whose location is "total:" (the last
\* one if there are several, 0 if there is none) and the per-function map
\* has one entry for every (location, name) of the other rows with the
\* percent of that row; in no case is a "total:" row an entry of the map.
C23_TotalAndFunctions ==
    chkPc = "returned" =>
        /\ \A key \in DOMAIN chkOut.coverage : key[1] # TotalLoc
        /\ AllWellFormed =>
              /\ chkOut.stage = "decided"
              /\ chkOut.total = (IF TotalRows = {} THEN 0 ELSE Rows[Last(TotalRows)].percent)
              /\ DOMAIN chkOut.coverage = {<<Rows[i].loc, Rows[i].name>> : i \in FunctionRows}
              /\ \A key \in DOMAIN chkOut.coverage :
                    chkOut.coverage[key] = Rows[Last(RowsOf(key))].percent

\* An output with a function row and the row of the total.
C23_Witness ==
    /\ chkPc = "returned"
    /\ AllWellFormed
    /\ TotalRows # {} /\ FunctionRows # {}
    /\ chkOut.total = DefaultMinimumCoverage - 1
    /\ DOMAIN chkOut.coverage = {<<FuncG.loc, FuncG.name>>}

\* C27: an output with a row that lacks a field or whose percent is no
\* number followed by "%" makes the check return the parse error "malformed
\* coverage file": the check neither panics nor goes on to the threshold.
C27_MalformedSummaryIsError ==
    (chkPc = "returned" /\ ~AllWellFormed) =>
        chkOut.stage = "parse" /\ chkOut.ret = MalformedCoverage

\* A test run of the coverage check has not come to its wg.Done().
Producing == \E i \in Dirs : covTask[i] # "done"

\* C24: the step that merges the profiles into counts is taken only when
\* every per-directory test run is over, and it is the step of the one
\* goroutine that called wg.Wait(): no test run moves in it, and while a test
\* run is still going there are no counts.
C24_MergeAfterTests ==
    /\ [](Producing => covOut = <<>>)
    /\ [][covOut' # covOut =>
            /\ ~Producing
            /\ covTask' = covTask /\ covFiles' = covFiles]_vars

\* The merge done on the profiles of two test runs.
C24_Witness ==
    /\ covPc = "returned"
    /\ covCfg.dirs = 2
    /\ ~Producing
    /\ covOut.res.stage = "decided"
    /\ DOMAIN covOut.res.counts = {KeyA, KeyB}

\* The capacity of the queue of the check that is running.
NestedCap ==
    IF covPc \in {"tstart", "ttesting", "treturned"} THEN TestErrsCap(covCfg.dirs)
    ELSE covCfg.dirs

TasksDone == {i \in Dirs : covTask[i] = "done"}

\* C25: in the coverage check and in the Test check a per-directory task
\* sends one error at most on the check's own queue of capacity
\* len(testDirs): the queue never holds more errors than tasks are done, no
\* two of them from one task, so a task that has yet to send finds room; a
\* task is either still to run or done, so the join is passed once all ran.
C25_NestedQueueNeverBlocks ==
    /\ Len(covErrs) <= Cardinality(TasksDone)
    /\ \A a, b \in DOMAIN covErrs : covErrs[a].dir = covErrs[b].dir => a = b
    /\ covPc \in {"testing", "ttesting"} =>
          /\ \A i \in Dirs : covTask[i] \in {"ready", "done"}
          /\ \A i \in Dirs : covTask[i] = "ready" => Len(covErrs) < NestedCap

\* Every task of a round of the Test check has failed and sent its error.
C25_Witness ==
    /\ covPc = "ttesting"
    /\ covCfg.dirs = 2
    /\ Len(covErrs) = 2
    /\ TasksDone = Dirs

\* A data line of text has a second field that is no integer.
BadCountLine(line) ==
    /\ Len(rsplitn(line, " ", 2)) = 2
    /\ ~Atoi(rsplitn(line, " ", 2)[2]).ok

HasBadCount(text) == \E j \in 2..Len(text) : BadCountLine(text[j])

\* C26: when a data line of one of the profile files that were opened has a
\* trailing field that is no integer, the check returns Atoi's error from
\* the merge: no profile is emitted, no threshold is looked at and no counts
\* are kept.
C26_BadCountAbortsMerge ==
    (/\ CovEnded
     /\ covOut.tmpDir # "none"
     /\ covOut.res.stage # "open"
     /\ \E i \in Existing : HasBadCount(covFiles[i].text)) =>
        /\ covPc = "returned"
        /\ covOut.res.stage = "merge"
        /\ covOut.res.ret.kind = "atoi"
        /\ covOut.res.emitted = NoProfile
        /\ covOut.res.counts = EmptyCounts

\* The build of entry k of ExtraArgs failed: it did not start, did not exit
\* with 0, or printed something.
BuildFailed(k) ==
    \/ ~chkIn.procs[k].started
    \/ chkIn.procs[k].exitCode # 0
    \/ chkIn.procs[k].out # <<>>

FirstFailed == CHOOSE k \in DOMAIN chkIn.procs :
                  BuildFailed(k) /\ \A j \in 1..(k - 1) : ~BuildFailed(j)

\* C28: when the build of some entry of ExtraArgs fails, BuildOnly.run
\* returns the error of the first build that failed and launches no build
\* after it.
C28_BuildFailsFast ==
    (/\ chkPc = "returned"
     /\ chkIn.variant = "build"
     /\ \E k \in DOMAIN chkIn.procs : BuildFailed(k)) =>
        /\ chkOut = OutThenErr("build", captureWd(chkIn.procs[FirstFailed]))
        /\ chkOut # Nil
        /\ BuildLaunched(chkIn.procs, 1) = FirstFailed

\* The lines of the linter's output that are messages: the non-empty ones,
\* the Blacklist being empty as Golint.resetDefault leaves it.
Messages(out) == {i \in DOMAIN Split(out, "\n") : Split(out, "\n")[i] # <<>>}

\* C29: Golint.run and Govet.run return an error exactly when the tool
\* printed a message line that holds no Blacklist entry.
C29_LintFailsOnMessage ==
    (chkPc = "returned" /\ chkIn.variant \in {"golint", "govet"}) =>
        (chkOut # Nil <=> Messages(captureWd(chkIn.procs[1]).out) # {})

-----------------------------------------------------------------------------
(* Claims about what a run leaves alone.                                    *)

\* The tasks whose own record of error and duration a step writes.
Written == {i \in Tasks : taskErr'[i] # taskErr[i] \/ taskDur'[i] # taskDur[i]}

\* C30: from the start of run() to its return the configuration (the global
\* MaxDuration, each check's run level, MaxDuration and parameters) and the
\* run level are never written, the enabled checks stay what EnabledChecks
\* made of the configuration, and a step of a task writes the outcome of
\* that one task only.
C30_ConfigurationUnchanged ==
    /\ [][config' = config /\ runLevel' = runLevel]_vars
    /\ [](mainPc # "start" => enabledChecks = EnabledChecks(config, runLevel))
    /\ [][mainPc # "start" =>
            /\ enabledChecks' = enabledChecks
            /\ Cardinality(Written) <= 1]_vars

\* run() returned after two checks with budgets of their own ran.
C30_Witness ==
    /\ mainPc = "returned"
    /\ Len(enabledChecks) = 2
    /\ \A i \in Tasks : enabledChecks[i].MaxDuration # 0 /\ taskDur[i] > 0
    /\ taskDur[1] # taskDur[2]

-----------------------------------------------------------------------------
(* Claims about a tree without test directories, the profile lines, the    *)
(* prerequisites and the helpers.                                          *)

\* The coverage check, or the Test check, is over in a tree where goDirs
\* finds no test directory.
CovOverNoDirs == covPc \in {"returned", "panicked"} /\ covCfg.dirs = 0
TestOverNoDirs == covPc = "treturned" /\ covCfg.dirs = 0

\* No goroutine, no profile and no queued failure, at any point of the check.
NothingLaunched == covTask = <<>> /\ covFiles = <<>> /\ covErrs = <<>>

\* The coverage check made no temporary directory, merged nothing, emitted
\* nothing and did not run the summarizer, so it compared no total.
NothingMerged ==
    /\ covOut.tmpDir = "none"
    /\ covOut.res.counts = EmptyCounts
    /\ covOut.res.emitted = NoProfile
    /\ covOut.cover = NoCover
    /\ covOut.res.stage \in {"early", "nodirs"}

\* C31 as stated: without test directories the coverage check and the Test
\* check both return success, whatever else they were called with.
C31_NoTestDirsSucceed ==
    /\ covCfg.dirs = 0 => NothingLaunched
    /\ CovOverNoDirs => covPc = "returned" /\ NothingMerged /\ covOut.res.ret = Nil
    /\ TestOverNoDirs => covOut.ret = Nil

\* C31: without test directories no test run is launched; the coverage check
\* makes no temporary directory, merges nothing and compares no total with
\* the minimum, and returns nil unless relToGOPATH failed before goDirs was
\* asked, in which case it returns that error; the Test check returns nil
\* unless ExtraArgs is empty, in which case it returns the ExtraArgs error.
C31_NoTestDirs ==
    /\ covCfg.dirs = 0 => NothingLaunched
    /\ CovOverNoDirs =>
          /\ covPc = "returned"
          /\ NothingMerged
          /\ covOut.res.ret \in {Nil, IOError("gopath")}
          /\ covOut.res.ret = Nil <=> covOut.res.stage = "nodirs"
    /\ TestOverNoDirs =>
          covOut.ret = (IF covCfg.extraArgs = 0 THEN ExtraArgsError ELSE Nil)

C31_Witness ==
    /\ CovOverNoDirs
    /\ covCfg.MinimumCoverage > 0
    /\ covOut.res.ret = Nil

\* The line of the loop body has been handled.
LineDone == chkPc = "returned"
HasSpace(s) == \E i \in DOMAIN s : s[i] = " "

\* C32: for every data line the merge either adds the line's count to its
\* key or returns an error; it never indexes a field the line lacks.
C32_MergeNeverCrashes ==
    LineDone =>
        /\ chkOut.merged.status \in {"ok", "err"}
        /\ chkOut.merged.status = "ok" =>
              /\ Len(chkOut.items) = 2
              /\ Atoi(chkOut.items[2]).ok
              /\ chkOut.merged.counts =
                    AddCount(chkIn.counts, chkOut.items[1], Atoi(chkOut.items[2]).val)
        /\ chkOut.merged.status = "err" => chkOut.merged.err # Nil

\* C34: rsplitn(s, " ", 2) splits at the last space: two items, the second
\* without a space, that joined by a space give s back when s holds a space,
\* and s alone when it holds none.
C34_RsplitnLastSpace ==
    LineDone =>
        IF HasSpace(chkIn.line)
        THEN /\ Len(chkOut.items) = 2
             /\ ~HasSpace(chkOut.items[2])
             /\ chkOut.items[1] \o <<" ">> \o chkOut.items[2] = chkIn.line
        ELSE chkOut.items = <<chkIn.line>>

C34_Witness ==
    /\ LineDone
    /\ Len(chkOut.items) = 2
    /\ HasSpace(chkOut.items[1])
    /\ chkOut.items[2] # <<>>

\* Probe i is at its send on c and cannot complete it: the channel is full.
ProbeBlocked(i) == taskPc[i] = "missing" /\ Len(errs) >= PrereqCap(enabledChecks)

\* The URLs of the prerequisites found missing.
MissingURLs == {taskErr[i].URL : i \in {j \in ProbeTasks : taskPc[j] \in {"missing", "sent"}}}

\* C33: no probe is ever at its send with the channel, of capacity
\* len(enabledChecks), full, so the join barrier is passed; and every
\* 'go get' that installPrereq runs names each missing URL once.
C33_InstallPrereqNeverBlocks ==
    /\ \A i \in ProbeTasks : ~ProbeBlocked(i)
    /\ mainPc = "preturned" =>
          /\ MissingURLs # {} => printed # <<>>
          /\ \A k \in DOMAIN printed :
                /\ Range(printed[k].urls) = MissingURLs
                /\ Len(printed[k].urls) = Cardinality(MissingURLs)

\* The calls of goDirs that have returned.
Returned == {i \in Callers : covTask[i] = "returned"}

\* s is in increasing order without a repeated entry.
Sorted(s) == \A k \in 1..(Len(s) - 1) : StringLess(s[k], s[k + 1])

\* C35: whatever the interleaving of the callers, the tree is walked once at
\* most, two calls with the same argument return the same list, and every
\* list returned is sorted.
C35_GoDirsMemo ==
    /\ covOut.walks <= 1
    /\ \A i \in Returned : Sorted(covFiles[i])
    /\ \A i \in Returned : \A j \in Returned :
          covCfg[i] = covCfg[j] => covFiles[i] = covFiles[j]

C35_Witness ==
    /\ Returned = 1..MaxCallers
    /\ covCfg[1] = covCfg[2]
    /\ Len(covFiles[1]) = 2
    /\ covOut.walks = 1

====
